---- MODULE Spec2Model ----
(***************************************************************************)
(* The intel winsys of the ICD (src/layers/screenshot.cpp, lines 762-1352): *)
(* a thin layer over the kernel buffer manager (libdrm_intel).  Buffer      *)
(* objects, their reference counts, tiling, relocation lists and GPU        *)
(* activity live in the buffer manager; the winsys functions are modelled   *)
(* statement by statement, the buffer-manager entry points they call are    *)
(* modelled by their contract.                                              *)
(***************************************************************************)
EXTENDS Integers, Sequences, FiniteSets, TLC

\* ------------------------------------------------------------------ bounds
MaxBO == 2          \* buffer objects the kernel can hand out
MaxThreads == 2      \* threads that acquire and release concurrently
MaxThreadCalls == 2  \* calls each of them makes
MaxRef == 3         \* references taken on one live buffer object

\* --------------------------------------------------------------- constants
NULL == 0           \* the null handle; buffer-object handles are 1..MaxBO
PAGE == 4096        \* "always page-aligned"

BOs == 1 .. MaxBO
Threads == 1 .. MaxThreads
Handles == {NULL} \cup BOs

VARIABLES
    bo,       \* [BOs -> record]: the buffer manager's view of each object
    relocs,   \* [BOs -> Seq(record)]: relocation entries recorded in each object
    net,      \* [BOs -> Int]: 1 at creation, +1 per acquire call, -1 per release call
    fault,    \* "ok", or how the process left defined behaviour: "segv" (NULL
              \* dereferenced), "ub" (freed object used), "abort" (assert fired)
    ws,       \* the winsys instance and the kernel resources it owns
    pend,     \* the call the (single) caller thread is blocked in, or NoCall
    ndebug,   \* the build defines NDEBUG: assert() compiles to nothing
    dev,      \* what this kernel and device answer to capability queries
    cut,      \* [BOs -> record]: the last truncation of each object's
              \* relocation list and the recording calls made on it since
    thr,      \* [Threads -> record]: the call each further thread is in
    layer,    \* the screenshot layer: its globals and the environment
    ret       \* what the last completed call did and returned

vars == <<bo, relocs, net, fault, ws, pend, ndebug, dev, cut, thr, layer, ret>>

\* A parameter query is answered by [err, value]: whether the ioctl fails, and
\* what it leaves in *value.
ParamAnswers == [err : BOOLEAN, value : {0, 1}]

\* The capability answers of a kernel and device; they do not change while
\* the process runs.
DevAnswers == [relaxed_delta : ParamAnswers,  \* I915_PARAM_HAS_RELAXED_DELTA
               aperture_ok : BOOLEAN,         \* drm_intel_get_aperture_sizes succeeds
               has_llc : ParamAnswers,        \* I915_PARAM_HAS_LLC
               swizzled : BOOLEAN,            \* swizzle # I915_BIT_6_SWIZZLE_NONE
               ppgtt : ParamAnswers,          \* I915_PARAM_HAS_ALIASING_PPGTT
               reg_read_ok : BOOLEAN,         \* drm_intel_reg_read succeeds
               sol_reset : ParamAnswers]      \* I915_PARAM_HAS_GEN7_SOL_RESET

\* A device with every capability.
DefaultDev == [relaxed_delta |-> [err |-> FALSE, value |-> 1], aperture_ok |-> TRUE,
               has_llc |-> [err |-> FALSE, value |-> 1], swizzled |-> FALSE,
               ppgtt |-> [err |-> FALSE, value |-> 1], reg_read_ok |-> TRUE,
               sol_reset |-> [err |-> FALSE, value |-> 1]]

NoCall == [op |-> "none"]

\* A thread that is in no call, having completed done calls.
Idle(done) == [pc |-> "idle", done |-> done]

\* No truncation of the object's relocation list was made yet.
NoCut == [on |-> FALSE]

\* The screenshot layer as loaded: _VK_SCREENSHOT not yet queried, no frame
\* requested, nothing tracked, no vkQueuePresentKHR seen.  env is the value of
\* the variable (empty when it is unset).  History: getenvCalls is the number
\* of times the variable was read, parsed the list right after parsing,
\* presents the number of vkQueuePresentKHR calls made, dumps the calls of
\* writePPM, setup what the application has done of enumerating the physical
\* device, creating the device, getting its queue and creating a command
\* pool, created and acquired the swapchains it has created and those whose
\* images it has got, steps the calls the last writePPM made, live the objects
\* that writePPM calls made and did not release.  globalLock is the thread that
\* holds the mutex, 0 when none does.
NoLayer == [env |-> <<>>, screenshotEnvQueried |-> FALSE,
            screenshotFrames |-> <<>>, frameNumber |-> 0,
            swapchainMap |-> <<>>, imageMap |-> <<>>, deviceMap |-> <<>>,
            physDeviceMap |-> <<>>,
            getenvCalls |-> 0, parsed |-> <<>>, presents |-> 0, dumps |-> <<>>,
            setup |-> {}, created |-> {}, acquired |-> {},
            steps |-> <<>>, live |-> {}, globalLock |-> 0]

\* A buffer object nobody created yet.  offset64 is the presumed GPU address,
\* a uint64_t written as four 16-bit limbs, least significant first.  kobj is
\* the object whose kernel memory an imported object shares (0: its own);
\* flink and prime tell whether the kernel memory has a global name and an
\* exported descriptor.
MaxData == 2        \* bytes of an object whose contents are followed: the first ones

\* Byte values.
Bytes == {0, 255}

\* The contents of the followed bytes of an object, by byte offset; a fresh
\* object reads as zeroes.
ZeroData == [i \in 0 .. MaxData - 1 |-> 0]

NoBo == [state |-> "none", refcount |-> 0, size |-> 0, tiling |-> "NONE",
         pitch |-> 0, offset64 |-> <<0, 0, 0, 0>>, busy |-> FALSE,
         kobj |-> 0, flink |-> FALSE, prime |-> FALSE,
         maps |-> 0, wmap |-> FALSE, data |-> ZeroData]

\* drm_intel_bo_alloc / drm_intel_bo_alloc_for_render: a fresh object with one
\* reference, linear, idle.
NewBo(size) == [state |-> "live", refcount |-> 1, size |-> size, tiling |-> "NONE",
                pitch |-> 0, offset64 |-> <<0, 0, 0, 0>>, busy |-> FALSE,
                kobj |-> 0, flink |-> FALSE, prime |-> FALSE,
                maps |-> 0, wmap |-> FALSE, data |-> ZeroData]

Alive(b) == bo[b].state = "live"
Freed(b) == bo[b].state = "freed"
Created(b) == bo[b].state # "none"

\* ------------------------------------------------------- buffer manager
\* The state the reference-count entry points work on.  Each entry point
\* yields the SET of states the call can end in.
KState == [bo |-> bo, relocs |-> relocs, fault |-> fault]

\* Freeing an object drops the references its relocation entries hold on
\* their targets (an entry that targets its own object holds none), which may
\* free those in turn.  DropRef(K, t) drops one such reference; DropTargets
\* drops those of the entries in list, recorded in object owner.
RECURSIVE DropRef(_, _), DropTargets(_, _, _)
DropRef(K, t) ==
    IF K.fault # "ok" THEN K
    ELSE IF K.bo[t].state # "live" THEN [K EXCEPT !.fault = "ub"]
    ELSE IF K.bo[t].refcount > 1 THEN [K EXCEPT !.bo[t].refcount = @ - 1]
    ELSE DropTargets([K EXCEPT !.bo[t].refcount = 0, !.bo[t].state = "freed",
                               !.relocs[t] = <<>>],
                     t, K.relocs[t])
DropTargets(K, owner, list) ==
    IF list = <<>> THEN K
    ELSE DropTargets(IF Head(list).target = owner THEN K
                     ELSE DropRef(K, Head(list).target),
                     owner, Tail(list))

\* Touching an object whose allocation was freed is undefined: the stale count
\* may be rewritten by d, or the access may go unnoticed.
UseAfterFree(K, h, d) ==
    { [K EXCEPT !.fault = "ub"],
      [K EXCEPT !.fault = "ub", !.bo[h].refcount = @ + d] }

\* drm_intel_bo_reference(h): one more reference.  The handle is dereferenced
\* without a check.
drm_intel_bo_reference(K, h) ==
    IF h = NULL THEN { [K EXCEPT !.fault = "segv"] }
    ELSE IF K.bo[h].state # "live" THEN UseAfterFree(K, h, 1)
    ELSE { [K EXCEPT !.bo[h].refcount = @ + 1] }

\* drm_intel_bo_unreference(h): one reference less; dropping the last one
\* frees the kernel-backed allocation and what it recorded.
drm_intel_bo_unreference(K, h) ==
    IF h = NULL THEN { [K EXCEPT !.fault = "segv"] }
    ELSE IF K.bo[h].state # "live" THEN UseAfterFree(K, h, -1)
    ELSE { DropRef(K, h) }

\* ------------------------------------------------------------ BufferAllocator
\* intel_bo_ref: "if (bo) drm_intel_bo_reference(gem_bo(bo)); return bo;"
intel_bo_ref_nocheck(K, h) == drm_intel_bo_reference(K, h)
intel_bo_ref(K, h) ==
    IF h # NULL THEN drm_intel_bo_reference(K, h) ELSE {K}

\* intel_bo_unref: "if (bo) drm_intel_bo_unreference(gem_bo(bo));"
intel_bo_unref_nocheck(K, h) == drm_intel_bo_unreference(K, h)
intel_bo_unref(K, h) ==
    IF h # NULL THEN drm_intel_bo_unreference(K, h) ELSE {K}

\* A handle the caller can hold: NULL, or one an allocation returned earlier
\* (also after its object was freed).
Held(h) == IF h = NULL THEN TRUE ELSE Created(h)

Running == fault = "ok" /\ pend = NoCall

\* intel_winsys_alloc_bo(winsys, name, size, cpu_init): the kernel allocation
\* path is chosen by cpu_init; the result of either is returned as it is, NULL
\* when the kernel has no object to give.
AllocPath(cpu_init) ==
    IF cpu_init THEN "drm_intel_bo_alloc" ELSE "drm_intel_bo_alloc_for_render"

RoundUp(n, a) == ((n + a - 1) \div a) * a

AllocBo(sizes) ==
    /\ Running /\ ws.state = "live"
    /\ \E size \in sizes, cpu_init \in BOOLEAN, ok \in BOOLEAN :
         \/ /\ ok
            /\ \E b \in BOs :
                 /\ bo[b].state = "none"
                 /\ \A c \in BOs : c < b => bo[c].state # "none"
                 /\ bo' = [bo EXCEPT ![b] = NewBo(RoundUp(size, PAGE))]
                 /\ net' = [net EXCEPT ![b] = 1]
                 /\ ret' = [op |-> "alloc", val |-> b, size |-> size,
                            path |-> AllocPath(cpu_init), alignment |-> PAGE]
         \/ /\ ~ok
            /\ UNCHANGED <<bo, net>>
            /\ ret' = [op |-> "alloc", val |-> NULL, size |-> size,
                       path |-> AllocPath(cpu_init), alignment |-> PAGE]
    /\ UNCHANGED <<relocs, fault, ws, pend, ndebug, dev, cut, thr, layer>>

\* A call of intel_bo_ref(h).
BoRef ==
    /\ Running
    /\ \E h \in Handles :
         /\ Held(h)
         /\ IF h = NULL THEN TRUE ELSE bo[h].refcount < MaxRef /\ net[h] < MaxRef
         /\ \E K \in intel_bo_ref(KState, h) :
              /\ bo' = K.bo
              /\ fault' = K.fault
         /\ net' = IF h = NULL THEN net ELSE [net EXCEPT ![h] = @ + 1]
         /\ ret' = [op |-> "ref", h |-> h, val |-> h, pre |-> bo,
                    again |-> ret.op = "ref" /\ ret.h = h]
    /\ UNCHANGED <<relocs, ws, pend, ndebug, dev, cut, thr, layer>>

\* A call of intel_bo_unref(h).
BoUnref ==
    /\ Running
    /\ \E h \in Handles :
         /\ Held(h)
         /\ IF h = NULL THEN TRUE ELSE net[h] >= 0
         /\ \E K \in intel_bo_unref(KState, h) :
              /\ bo' = K.bo
              /\ relocs' = K.relocs
              /\ fault' = K.fault
         /\ net' = IF h = NULL THEN net ELSE [net EXCEPT ![h] = @ - 1]
         /\ ret' = [op |-> "unref", h |-> h, val |-> NULL, pre |-> bo,
                    again |-> ret.op = "unref" /\ ret.h = h]
    /\ UNCHANGED <<ws, pend, ndebug, dev, cut, thr, layer>>

\* ----------------------------------------------------------------- winsys
\* The capability snapshot and resources of a winsys that creation returned.
LiveWinsys(info) == [state |-> "live", mem |-> TRUE, bufmgr |-> TRUE,
                     ctx |-> TRUE, testbo |-> 0, info |-> info]

DefaultInfo == [devid |-> 1, aperture_mappable |-> 2 * PAGE,
                aperture_total |-> 3 * PAGE, has_llc |-> TRUE,
                has_address_swizzling |-> FALSE, has_logical_context |-> TRUE,
                has_ppgtt |-> TRUE, has_timestamp |-> TRUE,
                has_gen7_sol_reset |-> TRUE]

\* ------------------------------------------------- reference counting
AllocSizes == {100, PAGE}

Init ==
    /\ bo = [b \in BOs |-> NoBo]
    /\ relocs = [b \in BOs |-> <<>>]
    /\ net = [b \in BOs |-> 0]
    /\ fault = "ok"
    /\ ws = LiveWinsys(DefaultInfo)
    /\ pend = NoCall
    /\ ndebug = FALSE
    /\ dev = DefaultDev
    /\ cut = [b \in BOs |-> NoCut]
    /\ thr = [t \in Threads |-> Idle(0)]
    /\ layer = NoLayer
    /\ ret = NoCall

AllocAny == AllocBo(AllocSizes)

Next ==
    \/ AllocAny
    \/ BoRef
    \/ BoUnref

Spec == Init /\ [][Next]_vars

\* What the reference-count contract says of one state.
RefCountContract ==
    /\ \A b \in BOs :
         /\ Alive(b) <=> net[b] > 0
         /\ Created(b) => (Freed(b) <=> net[b] = 0)
         /\ Alive(b) => bo[b].refcount = net[b]
         /\ net[b] >= 0
         /\ bo[b].refcount >= 0
    /\ (ret.op \in {"ref", "unref"} /\ ret.h = NULL) =>
          (bo = ret.pre /\ fault = "ok")

\* C1 as stated: for EVERY sequence of acquire and release calls the object is
\* alive iff its net reference count is > 0, it is freed exactly when the count
\* reaches 0, the count never goes below 0, and a call on a null handle changes
\* no state.
C1_AnySequence == RefCountContract

\* C1, amended: the same, for every sequence of calls in which no acquire or
\* release is applied to a handle whose object was already freed.
C1_RefCount == fault # "ub" => RefCountContract

\* C1 witness: a release dropped the last reference and the allocation was freed.
C1_Witness ==
    /\ ret.op = "unref" /\ ret.h # NULL /\ fault = "ok"
    /\ ret.pre[ret.h].refcount = 1 /\ Freed(ret.h) /\ net[ret.h] = 0

\* ------------------------------------------------------------ TilingManager
Modes == {"NONE", "X", "Y"}     \* enum intel_tiling_mode
Pitches == {128, 500, 512}      \* pitches the caller asks for
EINVAL == 22                    \* the errno of a refused kernel request

\* drm_intel_bo_set_tiling(bo, &real_tiling, pitch): what the kernel can answer.
\* It applies the requested mode, or applies another one without signalling,
\* or fails and reports the mode the object still has.  A linear object has
\* no pitch.
KernelSetTiling(cur, tiling, pitch) ==
    { [err |-> 0, real |-> m,
       after |-> [cur EXCEPT !.tiling = m,
                             !.pitch = IF m = "NONE" THEN 0 ELSE pitch]] : m \in Modes }
    \cup { [err |-> -EINVAL, real |-> cur.tiling, after |-> cur] }

\* The switch of intel_bo_set_tiling: "if (pitch % 512) return -1" for X,
\* "if (pitch % 128) return -1" for Y, nothing for any other mode.
PitchRejected_swapped(tiling, pitch) ==
    CASE tiling = "X" -> pitch % 128 # 0
      [] tiling = "Y" -> pitch % 512 # 0
      [] OTHER -> FALSE
PitchRejected(tiling, pitch) ==
    CASE tiling = "X" -> pitch % 512 # 0
      [] tiling = "Y" -> pitch % 128 # 0
      [] OTHER -> FALSE

\* "if (err || real_tiling != tiling)"
TilingMismatch_erronly(err, real_tiling, tiling) == err # 0
TilingMismatch(err, real_tiling, tiling) == err # 0 \/ real_tiling # tiling

\* A call of intel_bo_set_tiling(h, tiling, pitch).
SetTiling ==
    /\ Running
    /\ \E h \in Handles, tiling \in Modes, pitch \in Pitches :
         /\ Held(h)
         /\ IF PitchRejected(tiling, pitch)
            THEN /\ ret' = [op |-> "set_tiling", h |-> h, tiling |-> tiling,
                            pitch |-> pitch, outcome |-> "failure", val |-> -1,
                            kcalls |-> <<>>, pre |-> bo]
                 /\ UNCHANGED <<bo, fault>>
            ELSE IF h = NULL
            THEN /\ ret' = [op |-> "set_tiling", h |-> h, tiling |-> tiling,
                            pitch |-> pitch, outcome |-> "segv", val |-> 0,
                            kcalls |-> <<>>, pre |-> bo]
                 /\ fault' = "segv"
                 /\ UNCHANGED bo
            ELSE \E k \in KernelSetTiling(bo[h], tiling, pitch) :
                 /\ bo' = [bo EXCEPT ![h] = k.after]
                 /\ LET bad == TilingMismatch(k.err, k.real, tiling)
                        out == IF ~bad THEN "success"
                               ELSE IF ndebug THEN "failure" ELSE "abort"
                    IN /\ ret' = [op |-> "set_tiling", h |-> h, tiling |-> tiling,
                                  pitch |-> pitch, outcome |-> out,
                                  val |-> IF bad THEN -1 ELSE 0,
                                  kcalls |-> <<"drm_intel_bo_set_tiling">>,
                                  pre |-> bo, err |-> k.err, real |-> k.real]
                       /\ fault' = IF out = "abort" THEN "abort" ELSE fault
    /\ UNCHANGED <<relocs, net, ws, pend, ndebug, dev, cut, thr, layer>>

InitTiling ==
    /\ bo = [b \in BOs |-> NoBo]
    /\ relocs = [b \in BOs |-> <<>>]
    /\ net = [b \in BOs |-> 0]
    /\ fault = "ok"
    /\ ws = LiveWinsys(DefaultInfo)
    /\ pend = NoCall
    /\ ndebug \in BOOLEAN
    /\ dev = DefaultDev
    /\ cut = [b \in BOs |-> NoCut]
    /\ thr = [t \in Threads |-> Idle(0)]
    /\ layer = NoLayer
    /\ ret = NoCall

AllocPage == AllocBo({PAGE})

NextTiling ==
    \/ AllocPage
    \/ SetTiling

SpecTiling == InitTiling /\ [][NextTiling]_vars

\* C6: setTiling(bo, X, pitch) with pitch % 512 # 0 and setTiling(bo, Y, pitch)
\* with pitch % 128 # 0 return failure without any kernel call and without
\* changing any buffer object's tiling or pitch; for mode none no pitch is
\* rejected before the kernel call.
C6_PitchRejectedEarly ==
    ret.op = "set_tiling" =>
      /\ ( \/ (ret.tiling = "X" /\ ret.pitch % 512 # 0)
           \/ (ret.tiling = "Y" /\ ret.pitch % 128 # 0) ) =>
            ( /\ ret.outcome = "failure" /\ ret.val = -1
              /\ ret.kcalls = <<>>
              /\ bo = ret.pre /\ fault = "ok" )
      /\ (ret.tiling = "NONE" /\ ret.h # NULL) =>
            ret.kcalls = <<"drm_intel_bo_set_tiling">>

\* C6 witness: X tiling with pitch 500 was asked for a live object and refused.
C6_Witness ==
    /\ ret.op = "set_tiling" /\ ret.tiling = "X" /\ ret.pitch = 500
    /\ ret.h # NULL /\ Alive(ret.h) /\ ret.val = -1 /\ ret.kcalls = <<>>

\* C7: setTiling returns success only when the kernel call succeeded and the
\* mode the kernel reports as applied is the requested one; a kernel error or
\* a different applied mode always ends in the tiling-mismatch outcome: the
\* assertion, or failure status in a build without assertions.
C7_SuccessOnlyIfApplied ==
    (ret.op = "set_tiling" /\ ret.kcalls # <<>>) =>
      /\ ret.outcome = "success" <=> (ret.err = 0 /\ ret.real = ret.tiling)
      /\ ret.outcome = "success" => (ret.val = 0 /\ bo[ret.h].tiling = ret.tiling)
      /\ ret.outcome # "success" =>
            /\ ret.outcome = (IF ndebug THEN "failure" ELSE "abort")
            /\ ndebug => ret.val = -1
            /\ ~ndebug => fault = "abort"

\* C7 witness: the kernel applied another mode than the requested one without
\* an error, and the assertion fired.
C7_Witness ==
    /\ ret.op = "set_tiling" /\ ret.kcalls # <<>>
    /\ ret.err = 0 /\ ret.real # ret.tiling /\ ret.outcome = "abort"

\* -------------------------------------------------------- RelocationTracker
MaxRelocs == 1      \* relocation entries recorded in all buffer objects together

\* Unsigned arithmetic on 16-bit limbs, least significant limb first:
\* a uint32_t is two limbs, a uint64_t four.
Limb == 2 ^ 16

RECURSIVE AddLimbs(_, _, _, _)
AddLimbs(a, b, i, carry) ==
    IF i > Len(a) THEN <<>>
    ELSE LET s == a[i] + b[i] + carry
         IN <<s % Limb>> \o AddLimbs(a, b, i + 1, s \div Limb)

\* a + b in the width of a (the carry out of the top limb is dropped).
AddU(a, b) == AddLimbs(a, b, 1, 0)

\* The integer promotion of a uint32_t to uint64_t.
Ext32(x) == <<x[1], x[2], 0, 0>>
\* The conversion of a uint64_t to uint32_t.
Trunc32(x) == <<x[1], x[2]>>

\* "*presumed_offset = gem_bo(target_bo)->offset64 + target_offset;"
PresumedOffset_u32(offset64, target_offset) ==
    Ext32(AddU(Trunc32(offset64), target_offset))
PresumedOffset(offset64, target_offset) ==
    AddU(offset64, Ext32(target_offset))

\* The relocation flag bits a caller can pass: the three the winsys knows and
\* one it does not.
RelocBits == {"FENCE", "GGTT", "WRITE", "OTHER"}

\* write_domain of intel_bo_add_reloc, a set of I915_GEM_DOMAIN_* bits.
WriteDomain_fence(flags) ==
    IF "WRITE" \in flags
    THEN (IF "FENCE" \in flags THEN {"INSTRUCTION"} ELSE {"RENDER"})
    ELSE {}
WriteDomain(flags) ==
    IF "WRITE" \in flags
    THEN (IF "GGTT" \in flags THEN {"INSTRUCTION"} ELSE {"RENDER"})
    ELSE {}

\* read_domains of intel_bo_add_reloc.
ReadDomains(flags) ==
    IF "WRITE" \in flags
    THEN WriteDomain(flags)
    ELSE {"RENDER", "SAMPLER", "INSTRUCTION", "VERTEX"}

\* The recording path: "if (flags & INTEL_RELOC_FENCE)".
EmitPath_write(flags) ==
    IF "WRITE" \in flags THEN "drm_intel_bo_emit_reloc_fence"
    ELSE "drm_intel_bo_emit_reloc"
EmitPath(flags) ==
    IF "FENCE" \in flags THEN "drm_intel_bo_emit_reloc_fence"
    ELSE "drm_intel_bo_emit_reloc"

TotalRelocs == LET RECURSIVE Sum(_)
                   Sum(S) == IF S = {} THEN 0
                             ELSE LET b == CHOOSE x \in S : TRUE
                                  IN Len(relocs[b]) + Sum(S \ {b})
               IN Sum(BOs)

\* The four bytes a relocation patches lie inside the owner.
OffsetInRange(objs, owner, entry) == entry.offset + 4 <= objs[owner].size

\* What the library does with an entry whose offset is out of range: it
\* asserts the range, so a library built with assertions aborts and one built
\* without goes on as for any other entry.
RangeAssert(objs, owner, list, entry) ==
    IF OffsetInRange(objs, owner, entry) THEN {}
    ELSE { [err |-> 0, after |-> list, bo |-> objs, fault |-> "abort"] }

\* drm_intel_bo_emit_reloc / drm_intel_bo_emit_reloc_fence: the entry is
\* appended to the owner's list and holds a reference on its target (none
\* when the target is the owner itself), or the call fails and records nothing.
KernelEmitReloc_noref(objs, owner, list, entry) ==
    { [err |-> 0, after |-> Append(list, entry), bo |-> objs, fault |-> "ok"],
      [err |-> -EINVAL, after |-> list, bo |-> objs, fault |-> "ok"] }
    \cup RangeAssert(objs, owner, list, entry)
KernelEmitReloc(objs, owner, list, entry) ==
    { [err |-> 0, after |-> Append(list, entry),
       bo |-> IF entry.target = owner THEN objs
              ELSE [objs EXCEPT ![entry.target].refcount = @ + 1],
       fault |-> "ok"],
      [err |-> -EINVAL, after |-> list, bo |-> objs, fault |-> "ok"] }
    \cup RangeAssert(objs, owner, list, entry)

\* The place of the latest recording among the entries of a list: each entry
\* carries the place it took among those recorded on its owner before it.
LastSeq(list) ==
    IF list = <<>> THEN 0
    ELSE LET n == { list[i].seq : i \in 1 .. Len(list) }
         IN CHOOSE m \in n : \A x \in n : x <= m

MaxCalls == 2       \* recording calls counted on an object after a truncation

\* The record of recording calls since the last truncation, after one more
\* call that returned err.
CountCall(c, err) ==
    IF c.on THEN [c EXCEPT !.k = @ + 1, !.ok = @ + (IF err = 0 THEN 1 ELSE 0)]
    ELSE c

\* "return drm_intel_...(...)": the value a wrapper returns for the status err
\* of the library call it made.
ReturnStatus_flag(err) == IF err # 0 THEN -1 ELSE 0
ReturnStatus(err) == err

\* A call of intel_bo_add_reloc(h, offset, t, target_offset, flags, &presumed),
\* while fewer than max entries are recorded.
AddRelocUpTo(max, offsets, deltas, flagsets) ==
    /\ Running
    /\ TotalRelocs < max
    /\ \E h \in BOs, t \in BOs, offset \in offsets,
          target_offset \in deltas, flags \in flagsets :
         /\ Alive(h) /\ Alive(t)
         /\ IF cut[h].on THEN cut[h].k < MaxCalls ELSE TRUE
         /\ LET call == [fn |-> EmitPath(flags), bo |-> h, offset |-> offset,
                              target |-> t, target_offset |-> target_offset,
                              read_domains |-> ReadDomains(flags),
                              write_domain |-> WriteDomain(flags)]
                     entry == [offset |-> offset, target |-> t,
                               delta |-> target_offset,
                               read_domains |-> call.read_domains,
                               write_domain |-> call.write_domain,
                               fenced |-> "FENCE" \in flags,
                               seq |-> LastSeq(relocs[h]) + 1]
            IN \E k \in KernelEmitReloc(bo, h, relocs[h], entry) :
                 /\ relocs' = [relocs EXCEPT ![h] = k.after]
                 /\ bo' = k.bo
                 /\ fault' = k.fault
                 /\ cut' = [cut EXCEPT ![h] = CountCall(@, k.err)]
                 /\ ret' = [op |-> "add_reloc", h |-> h, offset |-> offset,
                            target |-> t, target_offset |-> target_offset,
                            flags |-> flags,
                            base |-> bo[t].offset64,
                            presumed |-> PresumedOffset(bo[t].offset64,
                                                        target_offset),
                            count_before |-> Len(relocs[h]),
                            val |-> ReturnStatus(k.err), kerr |-> k.err,
                            kcalls |-> <<call>>]
    /\ UNCHANGED <<net, ws, pend, ndebug, dev, thr, layer>>

AddReloc(offsets, deltas, flagsets) ==
    AddRelocUpTo(MaxRelocs, offsets, deltas, flagsets)

\* intel_bo_get_reloc_count(h): "return drm_intel_gem_bo_get_reloc_count(...)"
intel_bo_get_reloc_count(h) == Len(relocs[h])

\* An entry of the relocation array that no call recorded.
Unrecorded == [offset |-> 0, target |-> NULL, delta |-> <<0, 0>>,
               read_domains |-> {}, write_domain |-> {}, fenced |-> FALSE,
               seq |-> 0]

\* drm_intel_gem_bo_clear_relocs(h, start): the entries from index start on
\* are dropped and their targets unreferenced.  start must not exceed the
\* count: the library asserts it, and without the assertion sets the count to
\* start, past the recorded entries.
drm_intel_gem_bo_clear_relocs(K, h, start) ==
    LET list == K.relocs[h]
    IN IF start > Len(list)
       THEN { [K EXCEPT !.fault = "abort"],
              [K EXCEPT !.fault = "ub",
                        !.relocs[h] = list \o [i \in 1 .. start - Len(list)
                                                 |-> Unrecorded]] }
       ELSE { DropTargets([K EXCEPT !.relocs[h] = SubSeq(list, 1, start)],
                          h, SubSeq(list, start + 1, Len(list))) }

\* intel_bo_truncate_relocs: "drm_intel_gem_bo_clear_relocs(gem_bo(bo), start)"
intel_bo_truncate_relocs_all(K, h, start) ==
    drm_intel_gem_bo_clear_relocs(K, h, 0)
intel_bo_truncate_relocs(K, h, start) ==
    drm_intel_gem_bo_clear_relocs(K, h, start)

\* A call of intel_bo_truncate_relocs(h, start).
TruncateRelocs(starts) ==
    /\ Running
    /\ \E h \in BOs, start \in starts :
         /\ Alive(h)
         /\ \E K \in intel_bo_truncate_relocs(KState, h, start) :
              /\ bo' = K.bo
              /\ relocs' = K.relocs
              /\ fault' = K.fault
         /\ cut' = [cut EXCEPT ![h] =
                      [on |-> TRUE, n |-> start, k |-> 0, ok |-> 0,
                       kept |-> SubSeq(relocs[h], 1,
                                       IF start > Len(relocs[h])
                                       THEN Len(relocs[h]) ELSE start),
                       before |-> Len(relocs[h])]]
         /\ ret' = [op |-> "truncate_relocs", h |-> h, start |-> start,
                    pre |-> relocs[h]]
    /\ UNCHANGED <<net, ws, pend, ndebug, dev, thr, layer>>

\* ------------------------------------------------------ SubmissionScheduler
\* enum intel_ring_type takes the kernel's I915_EXEC_* ring selectors, the low
\* bits of the execution flags.
INTEL_RING_RENDER == 1
INTEL_RING_BLT == 3
RING_MASK == 7

RECURSIVE BitOr(_, _)
BitOr(a, b) ==
    IF a = 0 THEN b
    ELSE IF b = 0 THEN a
    ELSE (IF a % 2 = 1 \/ b % 2 = 1 THEN 1 ELSE 0) + 2 * BitOr(a \div 2, b \div 2)

RECURSIVE BitAnd(_, _)
BitAnd(a, b) ==
    IF a = 0 \/ b = 0 THEN 0
    ELSE (IF a % 2 = 1 /\ b % 2 = 1 THEN 1 ELSE 0) + 2 * BitAnd(a \div 2, b \div 2)

\* "const unsigned long exec_flags = (unsigned long) ring | flags;"
ExecFlags_sum(ring, flags) == ring + flags
ExecFlags(ring, flags) == BitOr(ring, flags)

\* "ctx = (ring == INTEL_RING_RENDER) ? winsys->ctx : NULL;"  A context is
\* TRUE when there is one, FALSE for NULL.
SelectCtx_always(ring, ctx) == ctx
SelectCtx(ring, ctx) == IF ring = INTEL_RING_RENDER THEN ctx ELSE FALSE

\* "if (ctx) drm_intel_gem_bo_context_exec(..) else drm_intel_bo_mrb_exec(..)"
ExecCall(ring, ctx, used, flags) ==
    IF SelectCtx(ring, ctx)
    THEN [fn |-> "drm_intel_gem_bo_context_exec", ctx |-> TRUE, used |-> used,
          exec_flags |-> ExecFlags(ring, flags)]
    ELSE [fn |-> "drm_intel_bo_mrb_exec", ctx |-> FALSE, used |-> used,
          exec_flags |-> ExecFlags(ring, flags)]

\* GPU addresses the kernel places objects at: 0xFFFFF000 and 0x100002000.
Addr64 == { <<61440, 65535, 0, 0>>, <<8192, 0, 1, 0>> }

\* The objects a command buffer references, directly or through relocations.
RECURSIVE Reach(_)
Reach(S) ==
    LET N == S \cup UNION { { relocs[b][i].target : i \in 1 .. Len(relocs[b]) } : b \in S }
    IN IF N = S THEN S ELSE Reach(N)

RECURSIVE Reverse(_)
Reverse(list) ==
    IF list = <<>> THEN <<>> ELSE Append(Reverse(Tail(list)), Head(list))

\* The relocation entries the kernel patches for each object of the working
\* set of h, in the order it patches them: the order of the object's list.
PatchOrder_reversed(h) ==
    [b \in BOs |-> IF b \in Reach({h}) THEN Reverse(relocs[b]) ELSE <<>>]
PatchOrder(h) ==
    [b \in BOs |-> IF b \in Reach({h}) THEN relocs[b] ELSE <<>>]

\* The kernel's execbuffer: it fails and changes nothing, or it makes every
\* object of the working set resident at an address of its choice and busy,
\* and patches the relocation entries of each.
KernelExec(objs, h) ==
    { [err |-> -EINVAL, after |-> objs, patched |-> [b \in BOs |-> <<>>]] }
    \cup { [err |-> 0,
            after |-> [b \in BOs |->
                         IF b \in Reach({h})
                         THEN [objs[b] EXCEPT !.offset64 = place[b], !.busy = TRUE]
                         ELSE objs[b]],
            patched |-> PatchOrder(h)] :
           place \in [BOs -> Addr64] }

\* A call of intel_winsys_submit_bo(winsys, ring, h, used, flags).
Submit(rings, flagset) ==
    /\ Running /\ ws.state = "live"
    /\ \E ring \in rings, flags \in flagset, h \in BOs, used \in {PAGE} :
         /\ Alive(h)
         /\ LET call == ExecCall(ring, ws.ctx, used, flags)
            IN \E k \in KernelExec(bo, h) :
                 /\ bo' = k.after
                 /\ ret' = [op |-> "submit", h |-> h, ring |-> ring,
                            flags |-> flags, used |-> used,
                            patched |-> k.patched,
                            val |-> ReturnStatus(k.err), kerr |-> k.err,
                            kcalls |-> <<call>>]
    /\ UNCHANGED <<relocs, net, fault, ws, pend, ndebug, dev, cut, thr, layer>>

\* The hardware finishes the outstanding work on an object.
GpuComplete ==
    /\ fault = "ok"
    /\ \E b \in BOs :
         /\ bo[b].busy
         /\ bo' = [bo EXCEPT ![b].busy = FALSE]
    /\ UNCHANGED <<relocs, net, fault, ws, pend, ndebug, dev, cut, thr, layer, ret>>

MaxArray == 2       \* entries of the bo_array given to can_submit

\* Arrays of n live handles, repetitions allowed.
Arrays == UNION { [1 .. n -> { b \in BOs : Alive(b) }] : n \in 0 .. MaxArray }

RECURSIVE SumSizes(_)
SumSizes(S) ==
    IF S = {} THEN 0
    ELSE LET b == CHOOSE x \in S : TRUE IN bo[b].size + SumSizes(S \ {b})

\* drm_intel_bufmgr_check_aperture_space(bo_array, count): 0 when the objects,
\* each counted once, fit the aperture; an error code when they do not.
KernelCheckAperture(array, aperture) ==
    IF SumSizes(Reach({ array[i] : i \in 1 .. Len(array) })) > aperture
    THEN -EINVAL ELSE 0

\* "return !drm_intel_bufmgr_check_aperture_space(...)"
CanSubmitResult_same(r) == r # 0
CanSubmitResult(r) == r = 0

\* A call of intel_winsys_can_submit_bo(winsys, bo_array, count).
CanSubmit ==
    /\ Running /\ ws.state = "live"
    /\ \E array \in Arrays :
         ret' = [op |-> "can_submit", array |-> array,
                 val |-> CanSubmitResult(
                           KernelCheckAperture(array, ws.info.aperture_total)),
                 kcalls |-> <<"drm_intel_bufmgr_check_aperture_space">>]
    /\ UNCHANGED <<bo, relocs, net, fault, ws, pend, ndebug, dev, cut, thr, layer>>

\* ------------------------------------------- relocation recording, submission
\* target_offset values, uint32_t: 0, 0x2000 and 0xFFFFFFFF.
Deltas == { <<0, 0>>, <<8192, 0>>, <<65535, 65535>> }

\* The winsys after creation and the allocation of two one-page buffers, A
\* (handle 1) and B (handle 2).
InitTwoBuffers ==
    /\ bo = [b \in BOs |-> IF b <= 2 THEN NewBo(PAGE) ELSE NoBo]
    /\ relocs = [b \in BOs |-> <<>>]
    /\ net = [b \in BOs |-> IF b <= 2 THEN 1 ELSE 0]
    /\ fault = "ok"
    /\ ws = LiveWinsys(DefaultInfo)
    /\ pend = NoCall
    /\ ndebug = FALSE
    /\ dev = DefaultDev
    /\ cut = [b \in BOs |-> NoCut]
    /\ thr = [t \in Threads |-> Idle(0)]
    /\ layer = NoLayer
    /\ ret = NoCall

\* Calls that vary the target offset, and calls that vary the flags.
AddRelocDeltas == AddReloc({16}, Deltas, {{}, {"WRITE"}})
AddRelocFlags == AddReloc({16}, {<<0, 0>>}, SUBSET RelocBits)

SubmitRender == Submit({INTEL_RING_RENDER}, {0})

NextReloc ==
    \/ AddRelocDeltas
    \/ SubmitRender

SpecReloc == InitTwoBuffers /\ [][NextReloc]_vars

NextDomains == AddRelocFlags

SpecDomains == InitTwoBuffers /\ [][NextDomains]_vars

\* p is the sum of the uint64_t a and the uint32_t t, modulo 2^64: there is a
\* carry chain that makes every limb add up.
IsSum64(p, a, t) ==
    \E c \in [1 .. 5 -> {0, 1}] :
       /\ c[1] = 0
       /\ \A i \in 1 .. 4 :
            a[i] + (IF i <= 2 THEN t[i] ELSE 0) + c[i] = p[i] + Limb * c[i + 1]

\* C2: addRelocation yields presumedAddress equal to the target's presumed base
\* address at the moment of the call plus targetOffset, computed in 64-bit
\* arithmetic (no 32-bit wrap of the sum), for every value of flags and whether
\* or not the kernel recorded the entry.
C2_PresumedAddress ==
    ret.op = "add_reloc" =>
      /\ ret.base = bo[ret.target].offset64
      /\ IsSum64(ret.presumed, ret.base, ret.target_offset)

\* C2 witness: the sum of base 0xFFFFF000 and offset 0x2000 does not fit 32
\* bits, and the call returned 0x100001000.
C2_Witness ==
    /\ ret.op = "add_reloc" /\ "WRITE" \in ret.flags
    /\ ret.base = <<61440, 65535, 0, 0>> /\ ret.target_offset = <<8192, 0>>
    /\ ret.presumed = <<4096, 0, 1, 0>>

\* C3: the domains addRelocation passes to the kernel depend only on WRITE and
\* GGTT: (WRITE, GGTT) -> write = read = INSTRUCTION; (WRITE, no GGTT) ->
\* write = read = RENDER; (no WRITE, any GGTT) -> write = none, read = RENDER |
\* SAMPLER | INSTRUCTION | VERTEX, whatever the other flag bits, the offsets
\* and the buffers are.
C3_Domains ==
    ret.op = "add_reloc" =>
      LET w == "WRITE" \in ret.flags
          g == "GGTT" \in ret.flags
          k == ret.kcalls[1]
      IN /\ (w /\ g) => (k.write_domain = {"INSTRUCTION"}
                         /\ k.read_domains = {"INSTRUCTION"})
         /\ (w /\ ~g) => (k.write_domain = {"RENDER"} /\ k.read_domains = {"RENDER"})
         /\ ~w => ( /\ k.write_domain = {}
                    /\ k.read_domains = {"RENDER", "SAMPLER", "INSTRUCTION", "VERTEX"} )

\* C3 witness: a fenced write relocation without GGTT was passed with the
\* RENDER domains.
C3_Witness ==
    /\ ret.op = "add_reloc"
    /\ ret.flags = {"WRITE", "FENCE", "OTHER"}
    /\ ret.kcalls[1].write_domain = {"RENDER"}

\* ------------------------------------------------- capacity check, submission
InitAperture ==
    /\ bo = [b \in BOs |-> NoBo]
    /\ relocs = [b \in BOs |-> <<>>]
    /\ net = [b \in BOs |-> 0]
    /\ fault = "ok"
    /\ \E total \in {3 * PAGE - 1, 3 * PAGE} :
         ws = LiveWinsys([DefaultInfo EXCEPT !.aperture_total = total])
    /\ pend = NoCall
    /\ ndebug = FALSE
    /\ dev = DefaultDev
    /\ cut = [b \in BOs |-> NoCut]
    /\ thr = [t \in Threads |-> Idle(0)]
    /\ layer = NoLayer
    /\ ret = NoCall

AllocPages == AllocBo({PAGE, 2 * PAGE})

\* Submission flags: none, the low two bits (inside the ring field), bit 3 and
\* bit 6.
SubmitFlags == {0, 3, 8, 64}

SubmitAny == Submit({INTEL_RING_RENDER, INTEL_RING_BLT}, SubmitFlags)

NextAperture ==
    \/ AllocPages
    \/ CanSubmit

SpecAperture == InitAperture /\ [][NextAperture]_vars

NextSubmit ==
    \/ SubmitAny
    \/ GpuComplete

SpecSubmit == InitTwoBuffers /\ [][NextSubmit]_vars

\* The sizes of the objects of an array, each object counted once.
DedupTotal(array) ==
    LET RECURSIVE Upto(_)
        Upto(n) == IF n = 0 THEN 0
                   ELSE Upto(n - 1)
                        + (IF \E j \in 1 .. n - 1 : array[j] = array[n]
                           THEN 0 ELSE bo[array[n]].size)
    IN Upto(Len(array))

\* C4: canSubmit returns false iff the deduplicated sum of the sizes of the
\* buffer objects in the working set exceeds the device's total aperture.
C4_CanSubmit ==
    ret.op = "can_submit" =>
      (ret.val = FALSE <=> DedupTotal(ret.array) > ws.info.aperture_total)

\* C4 witness: a working set that names one object twice and totals exactly
\* the aperture was accepted.
C4_Witness ==
    /\ ret.op = "can_submit" /\ ret.val = TRUE
    /\ Len(ret.array) = 2 /\ ret.array[1] = ret.array[2]
    /\ bo[ret.array[1]].size = 2 * PAGE /\ ws.info.aperture_total = 3 * PAGE

\* C5: submit hands the kernel channel the logical hardware context iff
\* ring == render, every other ring is submitted with no context, and in both
\* cases the execution flags passed are the bitwise OR of ring and flags: every
\* bit of the result is a bit of ring or of flags, and when flags has no bit
\* in the ring field the ring field of the result is ring.
C5_ContextAndFlags ==
    ret.op = "submit" =>
      LET k == ret.kcalls[1]
      IN /\ Len(ret.kcalls) = 1
         /\ k.ctx <=> ret.ring = INTEL_RING_RENDER
         /\ k.fn = (IF ret.ring = INTEL_RING_RENDER
                    THEN "drm_intel_gem_bo_context_exec"
                    ELSE "drm_intel_bo_mrb_exec")
         /\ BitAnd(k.exec_flags, ret.ring) = ret.ring
         /\ BitAnd(k.exec_flags, ret.flags) = ret.flags
         /\ k.exec_flags <= ret.ring + ret.flags
         /\ k.exec_flags + BitAnd(ret.ring, ret.flags) = ret.ring + ret.flags
         /\ BitAnd(ret.flags, RING_MASK) = 0 =>
               BitAnd(k.exec_flags, RING_MASK) = ret.ring
         /\ k.used = ret.used

\* C5 witness: a submission to the blitter ring with flag bit 6 went out
\* without a context and with execution flags 64 | 3.
C5_Witness ==
    /\ ret.op = "submit" /\ ret.ring = INTEL_RING_BLT /\ ret.flags = 64
    /\ ret.val = 0 /\ ~ret.kcalls[1].ctx /\ ret.kcalls[1].exec_flags = 67

\* ---------------------------------------------------------------- FenceWait
ETIME == 62                     \* errno "timer expired"
Timeouts == {-1, 0, 1000}       \* int64_t timeout values the caller passes

\* "if (timeout >= 0) err = drm_intel_gem_bo_wait(..); else
\*  drm_intel_bo_wait_rendering(..);"
WaitKernelCall_timed(timeout) == "drm_intel_gem_bo_wait"
WaitKernelCall(timeout) ==
    IF timeout >= 0 THEN "drm_intel_gem_bo_wait" ELSE "drm_intel_bo_wait_rendering"

\* What the kernel wait can come back with, given whether the object is busy
\* at that moment.  drm_intel_bo_wait_rendering returns nothing and only once
\* the object is idle; drm_intel_gem_bo_wait returns 0 once it is idle, -ETIME
\* when a timeout given to it ran out first, or another error at any time.
KernelWait(fn, timeout, busy) ==
    IF fn = "drm_intel_bo_wait_rendering"
    THEN (IF busy THEN {} ELSE {0})
    ELSE (IF busy THEN (IF timeout >= 0 THEN {-ETIME} ELSE {}) ELSE {0})
         \cup {-EINVAL}

\* "if (err && err != -ETIME) err = 0; return err;"
WaitResult_raw(err) == err
WaitResult(err) == IF err # 0 /\ err # -ETIME THEN 0 ELSE err

\* intel_bo_wait(h, timeout) enters the kernel.
WaitCall ==
    /\ Running
    /\ \E h \in BOs, timeout \in Timeouts :
         /\ Alive(h)
         /\ pend' = [op |-> "wait", h |-> h, timeout |-> timeout,
                     fn |-> WaitKernelCall(timeout)]
    /\ UNCHANGED <<bo, relocs, net, fault, ws, ndebug, dev, cut, thr, layer, ret>>

\* The kernel wait comes back and intel_bo_wait returns.  err stays 0 on the
\* wait_rendering path, which assigns nothing to it.
WaitReturn ==
    /\ fault = "ok" /\ pend.op = "wait"
    /\ UNCHANGED <<bo, relocs, net, fault, ws, ndebug, dev, cut, thr, layer>>
    /\ \E k \in KernelWait(pend.fn, pend.timeout, bo[pend.h].busy) :
         LET err == IF pend.fn = "drm_intel_gem_bo_wait" THEN k ELSE 0
         IN ret' = [op |-> "wait", h |-> pend.h, timeout |-> pend.timeout,
                    kcalls |-> <<pend.fn>>, err |-> err, val |-> WaitResult(err),
                    busy |-> bo[pend.h].busy, pre |-> bo, post |-> bo']
    /\ pend' = NoCall

NextWait ==
    \/ SubmitRender
    \/ GpuComplete
    \/ WaitCall
    \/ WaitReturn

SpecWait == InitTwoBuffers /\ [][NextWait]_vars

\* C8: wait returns either success (0) or the timeout-expired code; with
\* timeout >= 0 a kernel wait error other than expiry is returned as success,
\* an expiry is returned as the timeout code and leaves the buffer state as it
\* was, the caller free to wait again; with timeout < 0 the result is success.
C8_WaitResults ==
    ret.op = "wait" =>
      /\ ret.val \in {0, -ETIME}
      /\ (ret.timeout >= 0 /\ ret.err # 0 /\ ret.err # -ETIME) => ret.val = 0
      /\ (ret.timeout >= 0 /\ ret.err = -ETIME) =>
            ( /\ ret.val = -ETIME
              /\ ret.post = ret.pre /\ fault = "ok"
              /\ Alive(ret.h) )
      /\ ret.timeout < 0 => ret.val = 0

\* C8 witness: a wait with a timeout came back with a kernel error that is
\* not the expiry, and returned success.
C8_Witness ==
    /\ ret.op = "wait" /\ ret.timeout >= 0
    /\ ret.err = -EINVAL /\ ret.val = 0

\* C9: wait with timeout < 0 never returns while GPU work on the object is
\* outstanding; with timeout >= 0 it may return before completion, but only
\* with the timeout-expired code or after a folded kernel error.
C9_NoEarlyReturn ==
    (ret.op = "wait" /\ ret.busy) =>
      /\ ret.timeout >= 0
      /\ \/ ret.val = -ETIME
         \/ (ret.err # 0 /\ ret.err # -ETIME /\ ret.val = 0)

\* C9 witness: a wait without timeout on an object that had been submitted
\* returned, the work being complete.
C9_Witness ==
    /\ ret.op = "wait" /\ ret.timeout < 0 /\ ~ret.busy
    /\ bo[ret.h].offset64 # <<0, 0, 0, 0>>

\* -------------------------------------------------------------- DeviceProbe
\* What the allocator and the kernel can answer during one creation: whether
\* each resource can be had.
AllCallAnswers ==
    [alloc_ok : BOOLEAN,        \* icd_instance_alloc returns storage
     bufmgr_ok : BOOLEAN,       \* drm_intel_bufmgr_gem_init succeeds
     testbo_ok : BOOLEAN,       \* drm_intel_bo_alloc_tiled succeeds
     tiling_ok : BOOLEAN,       \* drm_intel_bo_get_tiling succeeds
     uninit_swizzle : BOOLEAN,  \* what the unset local "swizzle" compares
                                \* as: # I915_BIT_6_SWIZZLE_NONE or not
     ctx_ok : BOOLEAN]          \* drm_intel_gem_context_create succeeds

\* A call that is not made has no answer: its field keeps one fixed value.
CallAnswers == { c \in AllCallAnswers :
                   /\ ~c.alloc_ok => c.bufmgr_ok
                   /\ ~(c.alloc_ok /\ c.bufmgr_ok)
                        => (c.testbo_ok /\ c.ctx_ok)
                   /\ ~c.testbo_ok => c.tiling_ok
                   /\ c.tiling_ok => ~c.uninit_swizzle }

\* The answers of one creation: those of the device and those of the call.
Env(d, c) == [alloc_ok |-> c.alloc_ok, bufmgr_ok |-> c.bufmgr_ok,
              testbo_ok |-> c.testbo_ok, ctx_ok |-> c.ctx_ok,
              tiling_ok |-> c.tiling_ok, uninit_swizzle |-> c.uninit_swizzle,
              relaxed_delta |-> d.relaxed_delta, aperture_ok |-> d.aperture_ok,
              has_llc |-> d.has_llc, swizzled |-> d.swizzled, ppgtt |-> d.ppgtt,
              reg_read_ok |-> d.reg_read_ok, sol_reset |-> d.sol_reset]

\* No winsys: what memset leaves in the storage, nothing owned.
ZeroInfo == [devid |-> 0, aperture_mappable |-> 0, aperture_total |-> 0,
             has_llc |-> FALSE, has_address_swizzling |-> FALSE,
             has_logical_context |-> FALSE, has_ppgtt |-> FALSE,
             has_timestamp |-> FALSE, has_gen7_sol_reset |-> FALSE]

NoWinsys == [state |-> "none", mem |-> FALSE, bufmgr |-> FALSE, ctx |-> FALSE,
             testbo |-> 0, info |-> ZeroInfo]

\* get_param: "*value = 0; ... if (err) { *value = 0; return false; } return
\* true;"
get_param(answer) ==
    IF answer.err THEN [ok |-> FALSE, value |-> 0]
    ELSE [ok |-> TRUE, value |-> answer.value]

\* drm_intel_bo_get_tiling(bo, &tiling, &swizzle) as test_address_swizzling
\* uses it: the status is dropped, and "swizzle" has no initializer, so after
\* a failed query it holds whatever the stack held.
SwizzleAfterQuery(env) ==
    IF env.tiling_ok THEN env.swizzled ELSE env.uninit_swizzle

\* test_address_swizzling: the test object is allocated, queried and
\* unreferenced; without an object the answer is "no swizzling".
test_address_swizzling_leak(W, env) ==
    IF env.testbo_ok
    THEN [W |-> [W EXCEPT !.testbo = @ + 1], result |-> SwizzleAfterQuery(env)]
    ELSE [W |-> W, result |-> FALSE]
test_address_swizzling(W, env) ==
    IF env.testbo_ok
    THEN [W |-> [W EXCEPT !.testbo = (@ + 1) - 1],
          result |-> SwizzleAfterQuery(env)]
    ELSE [W |-> W, result |-> FALSE]

\* test_reg_read: "return !drm_intel_reg_read(...)"
test_reg_read(env) == env.reg_read_ok

\* probe_winsys, statement by statement; each early "return false" leaves the
\* winsys as far as it was filled in.
probe_winsys_lenient(W, env) ==
    IF get_param(env.relaxed_delta).value = 0 THEN [ok |-> FALSE, W |-> W]
    ELSE LET W1 == [W EXCEPT !.info.devid = DefaultInfo.devid]
         IN IF ~env.aperture_ok THEN [ok |-> FALSE, W |-> W1]
            ELSE LET W2 == [W1 EXCEPT
                              !.info.aperture_mappable = DefaultInfo.aperture_mappable,
                              !.info.aperture_total = DefaultInfo.aperture_total,
                              !.info.has_llc = get_param(env.has_llc).value # 0]
                     sw == test_address_swizzling(W2, env)
                     W3 == [sw.W EXCEPT !.info.has_address_swizzling = sw.result,
                                        !.ctx = env.ctx_ok]
                 IN [ok |-> TRUE,
                     W |-> [W3 EXCEPT
                              !.info.has_logical_context = W3.ctx,
                              !.info.has_ppgtt = get_param(env.ppgtt).value # 0,
                              !.info.has_timestamp = test_reg_read(env),
                              !.info.has_gen7_sol_reset =
                                  get_param(env.sol_reset).value # 0]]
probe_winsys(W, env) ==
    IF get_param(env.relaxed_delta).value = 0 THEN [ok |-> FALSE, W |-> W]
    ELSE LET W1 == [W EXCEPT !.info.devid = DefaultInfo.devid]
         IN IF ~env.aperture_ok THEN [ok |-> FALSE, W |-> W1]
            ELSE LET W2 == [W1 EXCEPT
                              !.info.aperture_mappable = DefaultInfo.aperture_mappable,
                              !.info.aperture_total = DefaultInfo.aperture_total,
                              !.info.has_llc = get_param(env.has_llc).value # 0]
                     sw == test_address_swizzling(W2, env)
                     W3 == [sw.W EXCEPT !.info.has_address_swizzling = sw.result,
                                        !.ctx = env.ctx_ok]
                 IN IF ~W3.ctx THEN [ok |-> FALSE, W |-> W3]
                    ELSE [ok |-> TRUE,
                          W |-> [W3 EXCEPT
                                   !.info.has_logical_context = W3.ctx,
                                   !.info.has_ppgtt = get_param(env.ppgtt).value # 0,
                                   !.info.has_timestamp = test_reg_read(env),
                                   !.info.has_gen7_sol_reset =
                                       get_param(env.sol_reset).value # 0]]

\* drm_intel_bufmgr_destroy and icd_instance_free, as the failure paths and
\* intel_winsys_destroy call them.
BufmgrDestroy(W) == [W EXCEPT !.bufmgr = FALSE]
InstanceFree(W) == [W EXCEPT !.mem = FALSE, !.state = "none", !.info = ZeroInfo]

\* intel_winsys_create_for_fd: [val, W], val being whether a winsys is
\* returned (FALSE for NULL) and W what exists afterwards.
intel_winsys_create_for_fd_leak(env) ==
    IF ~env.alloc_ok THEN [val |-> FALSE, W |-> NoWinsys]
    ELSE LET W0 == [NoWinsys EXCEPT !.mem = TRUE]
         IN IF ~env.bufmgr_ok THEN [val |-> FALSE, W |-> InstanceFree(W0)]
            ELSE LET p == probe_winsys([W0 EXCEPT !.bufmgr = TRUE], env)
                 IN IF ~p.ok
                    THEN [val |-> FALSE, W |-> InstanceFree(p.W)]
                    ELSE [val |-> TRUE, W |-> [p.W EXCEPT !.state = "live"]]
intel_winsys_create_for_fd(env) ==
    IF ~env.alloc_ok THEN [val |-> FALSE, W |-> NoWinsys]
    ELSE LET W0 == [NoWinsys EXCEPT !.mem = TRUE]
         IN IF ~env.bufmgr_ok THEN [val |-> FALSE, W |-> InstanceFree(W0)]
            ELSE LET p == probe_winsys([W0 EXCEPT !.bufmgr = TRUE], env)
                 IN IF ~p.ok
                    THEN [val |-> FALSE, W |-> InstanceFree(BufmgrDestroy(p.W))]
                    ELSE [val |-> TRUE, W |-> [p.W EXCEPT !.state = "live"]]

\* A call of intel_winsys_create_for_fd(instance, fd).
Create ==
    /\ Running /\ ws.state = "none"
    /\ \E c \in CallAnswers :
         LET r == intel_winsys_create_for_fd(Env(dev, c))
         IN /\ ws' = r.W
            /\ ret' = [op |-> "create", val |-> r.val, env |-> Env(dev, c)]
    /\ UNCHANGED <<bo, relocs, net, fault, pend, ndebug, dev, cut, thr, layer>>

\* A call of intel_winsys_destroy(winsys): the context, the buffer manager and
\* the storage are released.
Destroy ==
    /\ Running /\ ws.state = "live"
    /\ ws' = InstanceFree(BufmgrDestroy([ws EXCEPT !.ctx = FALSE]))
    /\ ret' = [op |-> "destroy"]
    /\ UNCHANGED <<bo, relocs, net, fault, pend, ndebug, dev, cut, thr, layer>>

InitCreate ==
    /\ bo = [b \in BOs |-> NoBo]
    /\ relocs = [b \in BOs |-> <<>>]
    /\ net = [b \in BOs |-> 0]
    /\ fault = "ok"
    /\ ws = NoWinsys
    /\ pend = NoCall
    /\ ndebug = FALSE
    /\ dev \in DevAnswers
    /\ cut = [b \in BOs |-> NoCut]
    /\ thr = [t \in Threads |-> Idle(0)]
    /\ layer = NoLayer
    /\ ret = NoCall

NextCreate ==
    \/ Create
    \/ Destroy

SpecCreate == InitCreate /\ [][NextCreate]_vars

\* Nothing of a winsys exists: no storage, no buffer manager, no context, no
\* test buffer object.
NothingHeld ==
    /\ ws.state = "none" /\ ~ws.mem /\ ~ws.bufmgr /\ ~ws.ctx /\ ws.testbo = 0
    /\ \A b \in BOs : ~Alive(b)

\* C10: when WinSys creation fails, because memory-manager initialization
\* fails or because a required capability is absent during the probe, it
\* returns null and everything acquired up to the failure point (storage,
\* buffer manager, swizzle-test buffer object, logical context) has been
\* released.
C10_FailedCreateReleasesAll ==
    ret.op = "create" =>
      /\ ~ret.val => NothingHeld
      /\ ( \/ ~ret.env.bufmgr_ok
           \/ ret.env.relaxed_delta.err \/ ret.env.relaxed_delta.value = 0
           \/ ~ret.env.aperture_ok
           \/ ~ret.env.ctx_ok ) => ~ret.val
      /\ ret.val => (ws.state = "live" /\ ws.mem /\ ws.bufmgr /\ ws.ctx)

\* C10 witness: the probe failed at context creation, after the buffer manager
\* was up and the swizzle-test object had been allocated.
C10_Witness ==
    /\ ret.op = "create" /\ ~ret.val
    /\ ret.env.alloc_ok /\ ret.env.bufmgr_ok /\ ~ret.env.relaxed_delta.err
    /\ ret.env.relaxed_delta.value = 1 /\ ret.env.aperture_ok
    /\ ret.env.testbo_ok /\ ~ret.env.ctx_ok

\* ------------------------------------------------- optional capabilities
\* The answers that let the required part of the probe pass.
RequiredPresent(env) ==
    /\ env.alloc_ok /\ env.bufmgr_ok
    /\ ~env.relaxed_delta.err /\ env.relaxed_delta.value # 0
    /\ env.aperture_ok /\ env.ctx_ok

\* An optional parameter is absent: its query failed or answered 0.
ParamAbsent(answer) == answer.err \/ answer.value = 0

\* The swizzle test has nothing to report: no test buffer, a failed tiling
\* query, or a kernel that reports no swizzling.
SwizzleAbsent(env) == ~env.testbo_ok \/ ~env.tiling_ok \/ ~env.swizzled

\* The optional capabilities other than address swizzling: never fatal, and
\* recorded as false when absent.
OptionalParamsContract ==
    ret.op = "create" =>
      /\ RequiredPresent(ret.env) => ret.val
      /\ ret.val =>
           /\ ParamAbsent(ret.env.has_llc) => ~ws.info.has_llc
           /\ ParamAbsent(ret.env.ppgtt) => ~ws.info.has_ppgtt
           /\ ~ret.env.reg_read_ok => ~ws.info.has_timestamp
           /\ ParamAbsent(ret.env.sol_reset) => ~ws.info.has_gen7_sol_reset
           /\ (~ret.env.testbo_ok \/ (ret.env.tiling_ok /\ ~ret.env.swizzled))
                => ~ws.info.has_address_swizzling

\* C11: an optional capability that is absent or whose kernel query fails
\* (last-level cache, address swizzling including failure to allocate the
\* test buffer, page-table support, timestamp-register read, ring-reset
\* capability) is recorded as false/0 in DeviceInfo and never makes WinSys
\* creation fail; a failed capability query always yields value 0.
C11_OptionalAbsentIsFalse ==
    /\ OptionalParamsContract
    /\ (ret.op = "create" /\ ret.val /\ SwizzleAbsent(ret.env))
         => ~ws.info.has_address_swizzling

\* The tiling query of the swizzle test failed and creation went on.
C11_QueryFailed ==
    /\ ret.op = "create" /\ ret.val
    /\ ret.env.testbo_ok /\ ~ret.env.tiling_ok

\* ------------------------------------------- truncation and re-recording
MaxEntries == 2     \* relocation entries recorded while lists are truncated

AddRelocEntry == AddRelocUpTo(MaxEntries, {16}, {<<0, 0>>}, {{}})

TruncateAny == TruncateRelocs(0 .. MaxEntries)

NextTruncate ==
    \/ AddRelocEntry
    \/ TruncateAny

SpecTruncate == InitTwoBuffers /\ [][NextTruncate]_vars

\* The first n entries of list (all of them when there are fewer).
FirstEntries(list, n) == SubSeq(list, 1, IF n > Len(list) THEN Len(list) ELSE n)

\* C12: for every n and k, truncateRelocations(bo, n) followed by k
\* addRelocation calls on bo leaves relocationCount(bo) == n + k, and the n
\* entries retained by the truncation are the first n recorded entries in
\* their original order.
C12_TruncateThenAdd ==
    \A b \in BOs :
       cut[b].on =>
         /\ intel_bo_get_reloc_count(b) = cut[b].n + cut[b].k
         /\ FirstEntries(relocs[b], cut[b].n) = cut[b].kept
         /\ Len(cut[b].kept) = cut[b].n

\* C12 as it holds: the same, for n not above the count at the truncation and
\* for k calls that all returned 0.
C12_TruncateThenAddOk ==
    \A b \in BOs :
       (cut[b].on /\ cut[b].n <= cut[b].before /\ cut[b].ok = cut[b].k) =>
         /\ intel_bo_get_reloc_count(b) = cut[b].n + cut[b].k
         /\ FirstEntries(relocs[b], cut[b].n) = cut[b].kept
         /\ Len(cut[b].kept) = cut[b].n

\* C12 witness: a list of two entries was truncated to its first entry and
\* one more entry was recorded after it.
C12_Witness ==
    \E b \in BOs :
       /\ cut[b].on /\ cut[b].before = 2 /\ cut[b].n = 1
       /\ cut[b].k = 1 /\ cut[b].ok = 1
       /\ Len(relocs[b]) = 2 /\ relocs[b][1] = cut[b].kept[1]
       /\ relocs[b][2] # relocs[b][1]

\* ------------------------------------------------------- recording path
\* C13: each addRelocation call records the relocation through exactly one
\* kernel recording path: the fenced path iff the FENCE flag is set, the
\* standard path otherwise; both paths receive the same owner, offset,
\* target, target offset and domains.
C13_OnePath ==
    ret.op = "add_reloc" =>
      /\ Len(ret.kcalls) = 1
      /\ LET call == ret.kcalls[1]
         IN /\ call.fn \in {"drm_intel_bo_emit_reloc_fence",
                            "drm_intel_bo_emit_reloc"}
            /\ call.fn = "drm_intel_bo_emit_reloc_fence" <=> "FENCE" \in ret.flags
            /\ call.bo = ret.h /\ call.offset = ret.offset
            /\ call.target = ret.target
            /\ call.target_offset = ret.target_offset
            /\ call.write_domain =
                 (IF "WRITE" \notin ret.flags THEN {}
                  ELSE IF "GGTT" \in ret.flags THEN {"INSTRUCTION"}
                  ELSE {"RENDER"})
            /\ call.read_domains =
                 (IF "WRITE" \notin ret.flags
                  THEN {"RENDER", "SAMPLER", "INSTRUCTION", "VERTEX"}
                  ELSE call.write_domain)

\* C13 witness: a write relocation with FENCE was recorded by the fenced
\* path, between two different objects.
C13_Witness ==
    /\ ret.op = "add_reloc" /\ ret.val = 0
    /\ ret.flags = {"FENCE", "WRITE"} /\ ret.h # ret.target
    /\ ret.kcalls[1].fn = "drm_intel_bo_emit_reloc_fence"
    /\ Len(relocs[ret.h]) = 1 /\ relocs[ret.h][1].fenced

\* ------------------------------------------------------------ HandleExchange
\* enum intel_winsys_handle_type, and a value outside it.
HandleTypes == {"SHARED", "KMS", "FD", "OTHER"}

\* The kernel memory behind object b, named by the object that allocated it.
Root(objs, b) == IF objs[b].kobj = 0 THEN b ELSE objs[b].kobj

\* What the kernel hands out for kernel memory k: its global (flink) name and
\* the descriptor it is exported as; and the process-local handle of object b.
GemName(k) == 100 + k
PrimeFd(k) == 10 + k
GemHandle(b) == b

\* Kernel memory stays while an object that uses it is alive.
KernelAlive(objs, k) == \E b \in BOs : objs[b].state = "live" /\ Root(objs, b) = k

\* drm_intel_bo_flink(bo, &name): the kernel names the memory, or fails.
drm_intel_bo_flink(objs, h) ==
    { [err |-> -EINVAL, value |-> 0, after |-> objs],
      [err |-> 0, value |-> GemName(Root(objs, h)),
       after |-> [objs EXCEPT ![Root(objs, h)].flink = TRUE]] }

\* drm_intel_bo_gem_export_to_prime(bo, &fd): the kernel opens a descriptor
\* on the memory, or fails.
drm_intel_bo_gem_export_to_prime(objs, h) ==
    { [err |-> -EINVAL, value |-> 0, after |-> objs],
      [err |-> 0, value |-> PrimeFd(Root(objs, h)),
       after |-> [objs EXCEPT ![Root(objs, h)].prime = TRUE]] }

\* The switch of intel_winsys_export_handle: [err, handle, after], handle
\* being the caller's struct as the switch leaves it.
ExportSwitch(objs, h, handle) ==
    CASE handle.type = "SHARED" ->
           { [err |-> k.err, after |-> k.after,
              handle |-> IF k.err = 0 THEN [handle EXCEPT !.handle = k.value]
                         ELSE handle] : k \in drm_intel_bo_flink(objs, h) }
      [] handle.type = "KMS" ->
           { [err |-> 0, after |-> objs,
              handle |-> [handle EXCEPT !.handle = GemHandle(h)]] }
      [] handle.type = "FD" ->
           { [err |-> k.err, after |-> k.after,
              handle |-> IF k.err = 0 THEN [handle EXCEPT !.handle = k.value]
                         ELSE handle] :
             k \in drm_intel_bo_gem_export_to_prime(objs, h) }
      [] OTHER -> { [err |-> -EINVAL, after |-> objs, handle |-> handle] }

\* intel_winsys_export_handle(winsys, bo, tiling, pitch, height, handle):
\* "if (err) return err; handle->stride = pitch; return 0;"
intel_winsys_export_handle_nostride(objs, h, tiling, pitch, height, handle) ==
    { [val |-> s.err, after |-> s.after, handle |-> s.handle] :
      s \in ExportSwitch(objs, h, handle) }
intel_winsys_export_handle(objs, h, tiling, pitch, height, handle) ==
    { [val |-> s.err, after |-> s.after,
       handle |-> IF s.err # 0 THEN s.handle
                  ELSE [s.handle EXCEPT !.stride = pitch]] :
      s \in ExportSwitch(objs, h, handle) }

Strides == {512, 1024}      \* pitches and strides the callers pass
Heights == {8}              \* heights the callers pass

\* The struct a caller passes to export: the type it wants, nothing else set.
BlankHandle(type) == [type |-> type, handle |-> 0, stride |-> 0]

\* A call of intel_winsys_export_handle.
ExportHandle ==
    /\ Running /\ ws.state = "live"
    /\ \E h \in BOs, type \in HandleTypes, tiling \in {"NONE"},
          pitch \in Strides, height \in Heights :
         /\ Alive(h)
         /\ \E r \in intel_winsys_export_handle(bo, h, tiling, pitch, height,
                                                BlankHandle(type)) :
              /\ bo' = r.after
              /\ ret' = [op |-> "export", h |-> h, type |-> type,
                         pitch |-> pitch, height |-> height,
                         val |-> r.val, handle |-> r.handle, pre |-> bo]
    /\ UNCHANGED <<relocs, net, fault, ws, pend, ndebug, dev, cut, thr, layer>>

\* The kernel memory a handle value stands for: a global name resolves while
\* the memory it names exists, a descriptor while it is open.
Resolve(objs, type, value) ==
    CASE type = "SHARED" ->
           { k \in BOs : objs[k].flink /\ GemName(k) = value
                         /\ KernelAlive(objs, k) }
      [] type = "FD" -> { k \in BOs : objs[k].prime /\ PrimeFd(k) = value }
      [] OTHER -> {}

\* The object an import makes in a free slot, on kernel memory k: one
\* reference, the memory's tiling, the given size.
ImportedBo(objs, k, size) ==
    [NewBo(size) EXCEPT !.kobj = k, !.tiling = objs[k].tiling,
                        !.pitch = objs[k].pitch]

\* drm_intel_bo_gem_create_from_name(bufmgr, name, gem_name): NULL, or an
\* object of the size the kernel reports for the name.
drm_intel_bo_gem_create_from_name(objs, slot, gem_name) ==
    { [bo |-> NULL, after |-> objs] }
    \cup { [bo |-> slot,
            after |-> [objs EXCEPT ![slot] = ImportedBo(objs, k, objs[k].size)]] :
           k \in Resolve(objs, "SHARED", gem_name) }

\* drm_intel_bo_gem_create_from_prime(bufmgr, fd, size): NULL, or an object
\* whose size is the one the kernel reports for the descriptor or, on a
\* kernel that does not report it, the size the caller gives.
drm_intel_bo_gem_create_from_prime(objs, slot, fd, size) ==
    { [bo |-> NULL, after |-> objs] }
    \cup UNION { { [bo |-> slot,
                     after |-> [objs EXCEPT ![slot] = ImportedBo(objs, k, sz)]] :
                    sz \in {objs[k].size, size} } :
                  k \in Resolve(objs, "FD", fd) }

\* drm_intel_bo_get_tiling(bo, &real_tiling, &swizzle): the tiling and the
\* swizzling of the object, or an error.
drm_intel_bo_get_tiling(objs, b, swizzled) ==
    { [err |-> 0, tiling |-> objs[b].tiling, swizzle |-> swizzled],
      [err |-> -EINVAL, tiling |-> "NONE", swizzle |-> FALSE] }

\* The switch of intel_winsys_import_handle: what "bo" is after it.
ImportSwitch_stride(objs, slot, handle, height) ==
    CASE handle.type = "SHARED" ->
           drm_intel_bo_gem_create_from_name(objs, slot, handle.handle)
      [] handle.type = "FD" ->
           drm_intel_bo_gem_create_from_prime(objs, slot, handle.handle,
                                              handle.stride)
      [] OTHER -> { [bo |-> NULL, after |-> objs] }
ImportSwitch(objs, slot, handle, height) ==
    CASE handle.type = "SHARED" ->
           drm_intel_bo_gem_create_from_name(objs, slot, handle.handle)
      [] handle.type = "FD" ->
           drm_intel_bo_gem_create_from_prime(objs, slot, handle.handle,
                                              height * handle.stride)
      [] OTHER -> { [bo |-> NULL, after |-> objs] }

\* The objects after drm_intel_bo_unreference(b).
Unreferenced(objs, b) ==
    DropRef([bo |-> objs, relocs |-> relocs, fault |-> "ok"], b).bo

\* intel_winsys_import_handle(winsys, name, handle, height, &tiling, &pitch):
\* [val, after, tiling, pitch, query]: the object returned (NULL on failure),
\* the objects afterwards, *tiling and *pitch as the call leaves them, and
\* the kernel's answer to the tiling query (NoCall when it was not made).
intel_winsys_import_handle_leak(objs, slot, handle, height, tiling, pitch, swizzled) ==
    UNION { IF c.bo = NULL
            THEN { [val |-> NULL, after |-> c.after, tiling |-> tiling,
                    pitch |-> pitch, query |-> NoCall] }
            ELSE { IF q.err # 0
                   THEN [val |-> NULL, after |-> c.after,
                         tiling |-> tiling, pitch |-> pitch, query |-> q]
                   ELSE [val |-> c.bo, after |-> c.after, tiling |-> q.tiling,
                         pitch |-> handle.stride, query |-> q] :
                   q \in drm_intel_bo_get_tiling(c.after, c.bo, swizzled) } :
            c \in ImportSwitch(objs, slot, handle, height) }
intel_winsys_import_handle(objs, slot, handle, height, tiling, pitch, swizzled) ==
    UNION { IF c.bo = NULL
            THEN { [val |-> NULL, after |-> c.after, tiling |-> tiling,
                    pitch |-> pitch, query |-> NoCall] }
            ELSE { IF q.err # 0
                   THEN [val |-> NULL, after |-> Unreferenced(c.after, c.bo),
                         tiling |-> tiling, pitch |-> pitch, query |-> q]
                   ELSE [val |-> c.bo, after |-> c.after, tiling |-> q.tiling,
                         pitch |-> handle.stride, query |-> q] :
                   q \in drm_intel_bo_get_tiling(c.after, c.bo, swizzled) } :
            c \in ImportSwitch(objs, slot, handle, height) }

\* The handles a caller can pass to import: the values the kernel gave out
\* for the first object, or none, under any type.
ImportHandles == [type : HandleTypes,
                  handle : {0, GemName(1), PrimeFd(1)},
                  stride : Strides]

\* What the caller's *tiling and *pitch hold before the call.
CallerTiling == "Y"
CallerPitch == 7

\* A call of intel_winsys_import_handle; the object it makes takes the first
\* free slot.
ImportHandle ==
    /\ Running /\ ws.state = "live"
    /\ \E slot \in BOs, handle \in ImportHandles, height \in Heights :
         /\ bo[slot].state = "none"
         /\ \A c \in BOs : c < slot => bo[c].state # "none"
         /\ \E r \in intel_winsys_import_handle(bo, slot, handle, height,
                        CallerTiling, CallerPitch, dev.swizzled) :
              /\ bo' = r.after
              /\ net' = IF r.val = NULL THEN net ELSE [net EXCEPT ![slot] = 1]
              /\ ret' = [op |-> "import", handle |-> handle, height |-> height,
                         val |-> r.val, tiling |-> r.tiling, pitch |-> r.pitch,
                         query |-> r.query, slot |-> slot,
                         resolved |-> Resolve(bo, handle.type, handle.handle),
                         prev |-> IF ret.op = "export"
                                  THEN [op |-> "export", h |-> ret.h,
                                        val |-> ret.val, handle |-> ret.handle]
                                  ELSE NoCall,
                         pre |-> bo, post |-> r.after]
    /\ UNCHANGED <<relocs, fault, ws, pend, ndebug, dev, cut, thr, layer>>

\* One object of one or two pages, linear or X-tiled, on a device that does
\* or does not swizzle.
InitHandle ==
    /\ \E size \in {PAGE, 2 * PAGE}, tiling \in {"NONE", "X"} :
         bo = [b \in BOs |->
                 IF b = 1
                 THEN [NewBo(size) EXCEPT
                         !.tiling = tiling,
                         !.pitch = IF tiling = "NONE" THEN 0 ELSE 512]
                 ELSE NoBo]
    /\ relocs = [b \in BOs |-> <<>>]
    /\ net = [b \in BOs |-> IF b = 1 THEN 1 ELSE 0]
    /\ fault = "ok"
    /\ ws = LiveWinsys(DefaultInfo)
    /\ pend = NoCall
    /\ ndebug = FALSE
    /\ \E sw \in BOOLEAN : dev = [DefaultDev EXCEPT !.swizzled = sw]
    /\ cut = [b \in BOs |-> NoCut]
    /\ thr = [t \in Threads |-> Idle(0)]
    /\ layer = NoLayer
    /\ ret = NoCall

NextHandle ==
    \/ ExportHandle
    \/ ImportHandle

SpecHandle == InitHandle /\ [][NextHandle]_vars

\* The objects alive in objs, with what the buffer manager holds of each.
LiveObjects(objs) == { <<b, objs[b]>> : b \in { c \in BOs : objs[c].state = "live" } }

\* The tiling query of an import was made and failed.
QueryFailed(r) == IF r.query = NoCall THEN FALSE ELSE r.query.err # 0

\* C14: importHandle fails with a null result and no side effects (the
\* caller's inOutTiling and inOutPitch are not written, and no buffer-object
\* reference stays held) in each failing case: the handle variant is neither
\* Shared nor FileDescriptor, the kernel cannot resolve the handle, or the
\* kernel tiling query on the freshly imported buffer fails (which releases
\* that buffer).
C14_ImportFailure ==
    ret.op = "import" =>
      /\ ( \/ ret.handle.type \notin {"SHARED", "FD"}
           \/ ret.resolved = {}
           \/ QueryFailed(ret) ) => ret.val = NULL
      /\ ret.val = NULL =>
           /\ ret.tiling = CallerTiling /\ ret.pitch = CallerPitch
           /\ LiveObjects(ret.post) = LiveObjects(ret.pre)
      /\ QueryFailed(ret) => ret.post[ret.slot].state = "freed"

\* C14 witness: the descriptor was imported, the tiling query on the new
\* object failed, and the call returned NULL.
C14_Witness ==
    /\ ret.op = "import" /\ ret.val = NULL
    /\ ret.handle.type = "FD" /\ ret.resolved # {} /\ QueryFailed(ret)

\* What a successful import gives back besides the swizzling state.
ImportReturnsTilingAndPitch ==
    (ret.op = "import" /\ ret.val # NULL) =>
      /\ ret.tiling = ret.query.tiling
      /\ ret.tiling = ret.pre[CHOOSE k \in ret.resolved : TRUE].tiling
      /\ ret.pitch = ret.handle.stride

\* C15: a successful importHandle returns to the caller the real tiling mode
\* and the swizzling state that the kernel reports for the imported buffer
\* (replacing whatever tiling the caller passed in), together with the pitch
\* carried by the handle.
C15_ImportReturnsTilingAndSwizzle ==
    (ret.op = "import" /\ ret.val # NULL) =>
      /\ ret.tiling = ret.query.tiling
      /\ ret.pitch = ret.handle.stride
      /\ "swizzle" \in DOMAIN ret
      /\ ret.swizzle = ret.query.swizzle

\* An import succeeded on a device that swizzles.
C15_Imported ==
    /\ ret.op = "import" /\ ret.val # NULL
    /\ ret.query.swizzle /\ ret.tiling = "X" /\ ret.pitch = 1024

\* The value export writes for the variant asked for.
VariantValue(objs, h, type) ==
    CASE type = "SHARED" -> GemName(Root(objs, h))
      [] type = "KMS" -> GemHandle(h)
      [] type = "FD" -> PrimeFd(Root(objs, h))
      [] OTHER -> 0

\* C16: exportHandle fills the handle with the value of the variant the
\* caller requested (Shared -> global name, KernelObject -> raw kernel handle,
\* FileDescriptor -> descriptor) and always attaches the given pitch as the
\* handle's stride, for every call and every variant.
C16_ExportAlways ==
    ret.op = "export" =>
      /\ ret.handle.stride = ret.pitch
      /\ ret.type \in {"SHARED", "KMS", "FD"}
           => ret.handle.handle = VariantValue(bo, ret.h, ret.type)

\* C16 as it holds: the same, for every call that returns 0; a call that
\* returns an error leaves the handle as the caller passed it.
C16_ExportOnSuccess ==
    ret.op = "export" =>
      /\ ret.val = 0 =>
           /\ ret.type \in {"SHARED", "KMS", "FD"}
           /\ ret.handle.type = ret.type
           /\ ret.handle.stride = ret.pitch
           /\ ret.handle.handle = VariantValue(bo, ret.h, ret.type)
      /\ ret.val # 0 => ret.handle = BlankHandle(ret.type)
      /\ ret.type \notin {"SHARED", "KMS", "FD"} => ret.val # 0

\* C16 witness: a descriptor was exported with pitch 1024.
C16_Witness ==
    /\ ret.op = "export" /\ ret.val = 0 /\ ret.type = "FD"
    /\ ret.pitch = 1024 /\ ret.handle.stride = 1024
    /\ ret.handle.handle = PrimeFd(ret.h) /\ bo[ret.h].prime

\* An import of the handle that the call before it exported as a descriptor.
RoundTrip ==
    /\ ret.op = "import" /\ ret.val # NULL
    /\ ret.prev.op = "export" /\ ret.prev.val = 0
    /\ ret.handle.type = "FD" /\ ret.handle = ret.prev.handle

\* C17: round trip: for every buffer object, exportHandle to a FileDescriptor
\* followed by importHandle of that handle on a second WinSys instance yields
\* a buffer object that reports the same size and the same tiling mode as the
\* original, for every height and pitch the caller passes.
C17_RoundTripSameSize ==
    RoundTrip =>
      /\ bo[ret.val].size = bo[ret.prev.h].size
      /\ bo[ret.val].tiling = bo[ret.prev.h].tiling

\* C17 as it holds: the tiling mode is the original's; the size is the one of
\* the kernel memory behind the original or height * pitch, hence the
\* original's whenever the original was allocated (not itself imported) and
\* height * pitch equals its size.
C17_RoundTrip ==
    RoundTrip =>
      /\ bo[ret.val].tiling = bo[ret.prev.h].tiling
      /\ Root(bo, ret.val) = Root(bo, ret.prev.h)
      /\ bo[ret.val].size \in {bo[Root(bo, ret.prev.h)].size,
                               ret.height * ret.handle.stride}
      /\ (bo[ret.prev.h].kobj = 0
            /\ ret.height * ret.handle.stride = bo[ret.prev.h].size)
           => bo[ret.val].size = bo[ret.prev.h].size

\* C17 witness: a two-page X-tiled object went through the round trip with
\* height 8 and pitch 1024.
C17_Witness ==
    /\ RoundTrip
    /\ ret.height * ret.handle.stride = 2 * PAGE
    /\ bo[ret.prev.h].size = 2 * PAGE /\ bo[ret.val].size = 2 * PAGE
    /\ bo[ret.val].tiling = "X" /\ ret.val # ret.prev.h

\* ------------------------------------------------- concurrent ref / unref
\* The library's counter update, made by a thread that entered the call when
\* the counter held seen: an atomic add to the current value.
AtomicCount_stale(cur, seen, d) == seen + d
AtomicCount(cur, seen, d) == cur + d

\* drm_intel_bo_reference (d = 1) / drm_intel_bo_unreference (d = -1) as a
\* thread completes it: the states the call can end in.
CountedBy(K, h, seen, d) ==
    IF K.bo[h].state # "live" THEN UseAfterFree(K, h, d)
    ELSE LET n == AtomicCount(K.bo[h].refcount, seen, d)
         IN IF d < 0 /\ n <= 0
            THEN { DropRef([K EXCEPT !.bo[h].refcount = 1], h) }
            ELSE { [K EXCEPT !.bo[h].refcount = n] }

\* The object the threads share.
Shared == 1

\* A thread enters intel_bo_ref(h) or intel_bo_unref(h): "if (bo)" holds and
\* the library call is about to run.
ThreadCall ==
    /\ fault = "ok"
    /\ \E t \in Threads, op \in {"ref", "unref"} :
         /\ thr[t].pc = "idle" /\ thr[t].done < MaxThreadCalls
         /\ thr' = [thr EXCEPT ![t] = [pc |-> op, done |-> thr[t].done,
                                       h |-> Shared,
                                       seen |-> bo[Shared].refcount]]
    /\ UNCHANGED <<bo, relocs, net, fault, ws, pend, ndebug, dev, cut, layer, ret>>

\* The library call of a thread takes effect and the thread returns.
ThreadReturn ==
    /\ fault = "ok"
    /\ \E t \in Threads :
         /\ thr[t].pc # "idle"
         /\ LET h == thr[t].h
                d == IF thr[t].pc = "ref" THEN 1 ELSE -1
            IN /\ \E K \in CountedBy(KState, h, thr[t].seen, d) :
                    /\ bo' = K.bo
                    /\ relocs' = K.relocs
                    /\ fault' = K.fault
               /\ net' = [net EXCEPT ![h] = @ + d]
               /\ ret' = [op |-> "thread", call |-> thr[t].pc, t |-> t, h |-> h,
                          val |-> IF d = 1 THEN h ELSE NULL,
                          seen |-> thr[t].seen, was |-> bo[h].refcount]
         /\ thr' = [thr EXCEPT ![t] = Idle(thr[t].done + 1)]
    /\ UNCHANGED <<ws, pend, ndebug, dev, cut, layer>>

NextThreads ==
    \/ ThreadCall
    \/ ThreadReturn

SpecThreads == InitTwoBuffers /\ [][NextThreads]_vars

\* The count of the shared object is its initial count plus the completed
\* acquires minus the completed releases, and the object is freed exactly
\* when that is 0.
CountsAddUp ==
    /\ bo[Shared].refcount = net[Shared]
    /\ bo[Shared].state = (IF net[Shared] = 0 THEN "freed" ELSE "live")

C19_Idempotent ==
    (fault = "ok" /\ ret.op \in {"ref", "unref"}) =>
      /\ ret.again => bo = ret.pre
      /\ ret.op = "ref" => ret.val = ret.h

\* C19 as it holds: acquire and release count.  Each acquire of a live object
\* adds one reference and each release removes one, the last release freeing
\* the object, so a second application never leaves a live object as the
\* first left it; on the null handle both do nothing.  acquire returns the
\* handle it was given.
C19_EachCallCounts ==
    /\ (ret.op \in {"ref", "unref"} /\ ret.h = NULL)
         => (fault = "ok" /\ bo = ret.pre)
    /\ (fault = "ok" /\ ret.op \in {"ref", "unref"}) =>
      /\ ret.op = "ref" => ret.val = ret.h
      /\ ret.h # NULL =>
           LET was == ret.pre[ret.h]
               now == bo[ret.h]
           IN /\ was.state = "live"
              /\ now.refcount = was.refcount + (IF ret.op = "ref" THEN 1 ELSE -1)
              /\ now.state = (IF now.refcount = 0 THEN "freed" ELSE "live")
              /\ bo # ret.pre
              /\ \A b \in BOs \ {ret.h} : bo[b] = ret.pre[b]

\* C19 witness: the second of two acquires in a row took the count of a live
\* object from 2 to 3.
C19_Witness ==
    /\ fault = "ok" /\ ret.op = "ref" /\ ret.again /\ ret.h # NULL
    /\ ret.pre[ret.h].refcount = 2 /\ bo[ret.h].refcount = 3

\* ------------------------------------------------------- target lifetime
AddRelocTarget == AddReloc({16}, {<<0, 0>>}, {{}})

TruncateTarget == TruncateRelocs(0 .. MaxRelocs)

NextLifetime ==
    \/ AddRelocTarget
    \/ TruncateTarget
    \/ BoUnref

SpecLifetime == InitTwoBuffers /\ [][NextLifetime]_vars

\* Every target of a recorded relocation entry is alive.
TargetsAlive ==
    \A h \in BOs : \A i \in 1 .. Len(relocs[h]) : Alive(relocs[h][i].target)

OwnerOffsets == {16, PAGE - 4, PAGE, PAGE + 16}

AddRelocOffsets == AddReloc(OwnerOffsets, {<<0, 0>>}, {{}, {"FENCE"}})

TruncateAll == TruncateRelocs({0})

NextOffsets ==
    \/ AddRelocOffsets
    \/ TruncateAll

SpecOffsets == InitTwoBuffers /\ [][NextOffsets]_vars

\* C21: every relocation recorded in a buffer object has an offset strictly
\* smaller than the owner's size: addRelocation with offset >= owner size
\* does not add an entry to the owner's relocation list.
C21_OffsetsInOwner ==
    \A h \in BOs : \A i \in 1 .. Len(relocs[h]) :
       relocs[h][i].offset < bo[h].size

\* A call recorded at an offset equal to the owner's size returned 0.
C21_RecordedAtSize ==
    /\ ret.op = "add_reloc" /\ ret.val = 0 /\ fault = "ok"
    /\ ret.offset = bo[ret.h].size
    /\ Len(relocs[ret.h]) = 1 /\ relocs[ret.h][1].offset = ret.offset

\* ------------------------------------------------- order of the patching
\* A truncation that keeps the first entry of a list.
TruncateToFirst == TruncateRelocs({1})

NextOrder ==
    \/ AddRelocEntry
    \/ TruncateToFirst
    \/ SubmitRender

SpecOrder == InitTwoBuffers /\ [][NextOrder]_vars

KernelStatus == {0, -EINVAL}

\* The bytes a caller passes or receives: size of them, first to last.
DataOf(size) == [1 .. size -> Bytes]

\* drm_intel_bo_subdata(h, offset, size, data): the kernel copies data over
\* the bytes [offset, offset + size) of the object, or fails and copies
\* nothing; a range that leaves the object is refused.
drm_intel_bo_subdata(objs, h, offset, size, data) ==
    IF offset + size > objs[h].size
    THEN { [err |-> -EINVAL, bo |-> objs] }
    ELSE { [err |-> 0,
            bo |-> [objs EXCEPT ![h].data =
                      [i \in 0 .. MaxData - 1 |->
                         IF offset <= i /\ i < offset + size /\ i - offset < Len(data)
                         THEN data[i - offset + 1] ELSE @[i]]]] }
         \cup { [err |-> e, bo |-> objs] : e \in KernelStatus \ {0} }

\* drm_intel_bo_get_subdata(h, offset, size, out): the kernel copies the bytes
\* [offset, offset + size) of the object out, or fails and copies nothing.
drm_intel_bo_get_subdata(objs, h, offset, size) ==
    IF offset + size > objs[h].size
    THEN { [err |-> -EINVAL, out |-> <<>>] }
    ELSE { [err |-> 0, out |-> [i \in 1 .. size |-> objs[h].data[offset + i - 1]]] }
         \cup { [err |-> e, out |-> <<>>] : e \in KernelStatus \ {0} }

\* intel_bo_pwrite: "return drm_intel_bo_subdata(gem_bo(bo), offset, size, data)"
intel_bo_pwrite_swapped(objs, h, offset, size, data) ==
    drm_intel_bo_subdata(objs, h, size, offset, data)
intel_bo_pwrite(objs, h, offset, size, data) ==
    drm_intel_bo_subdata(objs, h, offset, size, data)

\* intel_bo_pread: "return drm_intel_bo_get_subdata(gem_bo(bo), offset, size, data)"
intel_bo_pread(objs, h, offset, size) ==
    drm_intel_bo_get_subdata(objs, h, offset, size)

\* The ranges of a call: inside the followed bytes, or leaving the object.
Ranges(offsets, sizes) ==
    { r \in offsets \X sizes : r[1] + r[2] <= MaxData \/ r[1] + r[2] > PAGE }

\* A call of intel_bo_pwrite(h, offset, size, data).
Pwrite(offsets, sizes) ==
    /\ Running
    /\ \E h \in BOs, r \in Ranges(offsets, sizes) :
         /\ Alive(h)
         /\ \E data \in DataOf(r[2]) :
              \E k \in intel_bo_pwrite(bo, h, r[1], r[2], data) :
                /\ bo' = k.bo
                /\ ret' = [op |-> "pwrite", h |-> h, offset |-> r[1],
                           size |-> r[2], data |-> data, pre |-> bo,
                           val |-> ReturnStatus(k.err), kerr |-> k.err,
                           kcalls |-> <<"drm_intel_bo_subdata">>]
    /\ UNCHANGED <<relocs, net, fault, ws, pend, ndebug, dev, cut, thr, layer>>

\* The call before a read of [offset, offset + size) of h, when it was a
\* write of that range that returned 0.
LastWrite(h, offset, size) ==
    IF ret.op = "pwrite" /\ ret.val = 0
       /\ ret.h = h /\ ret.offset = offset /\ ret.size = size
    THEN [op |-> "pwrite", data |-> ret.data, pre |-> ret.pre[h].data]
    ELSE NoCall

\* A call of intel_bo_pread(h, offset, size, out).
Pread(offsets, sizes) ==
    /\ Running
    /\ \E h \in BOs, r \in Ranges(offsets, sizes) :
         /\ Alive(h)
         /\ \E k \in intel_bo_pread(bo, h, r[1], r[2]) :
              ret' = [op |-> "pread", h |-> h, offset |-> r[1], size |-> r[2],
                      out |-> k.out, prev |-> LastWrite(h, r[1], r[2]),
                      val |-> ReturnStatus(k.err), kerr |-> k.err,
                      kcalls |-> <<"drm_intel_bo_get_subdata">>]
    /\ UNCHANGED <<bo, relocs, net, fault, ws, pend, ndebug, dev, cut, thr, layer>>

\* drm_intel_reg_read(bufmgr, reg, &val): the register's value, or a failure
\* that leaves val alone.
drm_intel_reg_read(reg) ==
    { [err |-> 0, out |-> v] : v \in Addr64 }
    \cup { [err |-> e, out |-> <<0, 0, 0, 0>>] : e \in KernelStatus \ {0} }

\* The registers read: TIMESTAMP (0x2358) and another.
Registers == {9048, 0}

\* A call of intel_winsys_read_reg(winsys, reg, &val).
ReadReg ==
    /\ Running /\ ws.state = "live"
    /\ \E reg \in Registers : \E k \in drm_intel_reg_read(reg) :
         ret' = [op |-> "read_reg", reg |-> reg, out |-> k.out,
                 val |-> ReturnStatus(k.err), kerr |-> k.err,
                 kcalls |-> <<"drm_intel_reg_read">>]
    /\ UNCHANGED <<bo, relocs, net, fault, ws, pend, ndebug, dev, cut, thr, layer>>

\* drm_intel_get_reset_stats(ctx, &reset_count, &active, &pending): the
\* counts of the context, or a failure.
drm_intel_get_reset_stats(ctx) ==
    IF ~ctx THEN { [err |-> -EINVAL, active |-> 0, pending |-> 0] }
    ELSE { [err |-> 0, active |-> a, pending |-> p] : a, p \in {0, 1} }
         \cup { [err |-> e, active |-> 0, pending |-> 0] : e \in KernelStatus \ {0} }

\* intel_winsys_get_reset_stats(winsys, &active_lost, &pending_lost): the
\* winsys after the call and what the call hands back.
intel_winsys_get_reset_stats_note(w, k) ==
    [ws |-> [w EXCEPT !.info.has_gen7_sol_reset = (k.active = 0)],
     active_lost |-> k.active, pending_lost |-> k.pending]
intel_winsys_get_reset_stats(w, k) ==
    [ws |-> w, active_lost |-> k.active, pending_lost |-> k.pending]

\* A call of intel_winsys_get_reset_stats.
GetResetStats ==
    /\ Running /\ ws.state = "live"
    /\ \E k \in drm_intel_get_reset_stats(ws.ctx) :
         LET r == intel_winsys_get_reset_stats(ws, k)
         IN /\ ws' = r.ws
            /\ ret' = [op |-> "get_reset_stats",
                       active_lost |-> r.active_lost,
                       pending_lost |-> r.pending_lost,
                       val |-> ReturnStatus(k.err), kerr |-> k.err,
                       kcalls |-> <<"drm_intel_get_reset_stats">>]
    /\ UNCHANGED <<bo, relocs, net, fault, pend, ndebug, dev, cut, thr, layer>>

PwriteByte == Pwrite({0}, {1})
PreadByte == Pread({0}, {1})

NextChannel ==
    \/ AddRelocEntry
    \/ SubmitRender
    \/ PwriteByte
    \/ PreadByte
    \/ ReadReg
    \/ GetResetStats

SpecChannel == InitTwoBuffers /\ [][NextChannel]_vars

\* The calls that go to the kernel channel.
ChannelOps ==
    {"submit", "add_reloc", "pwrite", "pread", "read_reg", "get_reset_stats"}

\* C23: a kernel channel failure is propagated and never retried: submit,
\* addRelocation, writeRange, readRange, register read and getResetStats each
\* make one kernel call per call and return its status unchanged, and a failed
\* addRelocation leaves the owner's relocation count as it was.
C23_StatusPropagated ==
    /\ ret.op \in ChannelOps =>
         (Len(ret.kcalls) = 1 /\ ret.val = ret.kerr)
    /\ (ret.op = "add_reloc" /\ ret.val # 0) =>
         Len(relocs[ret.h]) = ret.count_before

\* C23 witness: a recording on an owner that already has an entry failed with
\* the kernel's status.
C23_Witness ==
    /\ ret.op = "add_reloc" /\ ret.kerr = -EINVAL /\ ret.val = -EINVAL
    /\ ret.count_before = 1 /\ Len(relocs[ret.h]) = 1

\* --------------------------------------------------- write/read round trip
RangeOffsets == (0 .. MaxData) \cup {PAGE}

RangeSizes == 0 .. MaxData

PwriteRange == Pwrite(RangeOffsets, RangeSizes)
PreadRange == Pread(RangeOffsets, RangeSizes)

NextRange ==
    \/ PwriteRange
    \/ PreadRange

SpecRange == InitTwoBuffers /\ [][NextRange]_vars

\* C24: after a successful writeRange(bo, offset, size, data), a readRange(bo,
\* offset, size) with no write in between returns exactly the bytes written,
\* and the write leaves the bytes of bo outside [offset, offset + size), and
\* every other buffer, as they were.
C24_RoundTrip ==
    /\ (ret.op = "pread" /\ ret.val = 0 /\ ret.prev.op = "pwrite") =>
         ret.out = ret.prev.data
    /\ (ret.op = "pwrite" /\ ret.val = 0) =>
         \A b \in BOs : \A i \in 0 .. MaxData - 1 :
            (b # ret.h \/ i < ret.offset \/ i >= ret.offset + ret.size)
               => bo[b].data[i] = ret.pre[b].data[i]

\* C24 witness: a byte written at offset 1 over a different one was read
\* back, the byte before it being another.
C24_Witness ==
    /\ ret.op = "pread" /\ ret.val = 0 /\ ret.prev.op = "pwrite"
    /\ ret.offset = 1 /\ ret.size = 1
    /\ ret.out = <<0>>
    /\ ret.prev.pre[1] = 255
    /\ bo[ret.h].data[0] = 255

\* ------------------------------------------------------ mapping, decoding
MaxMaps == 2        \* mappings a caller holds on one object

\* drm_intel_bo_map(h, write_enable): the object is mapped once more, after
\* the outstanding GPU access to it has completed, and remembers a mapping for
\* writing; or the mapping fails and nothing is kept of it.
drm_intel_bo_map(objs, h, write_enable) ==
    { [err |-> 0,
       bo |-> [objs EXCEPT ![h].maps = @ + 1, ![h].busy = FALSE,
                           ![h].wmap = @ \/ write_enable]],
      [err |-> -EINVAL, bo |-> objs] }

\* drm_intel_bo_unmap(h): a no-op returning 0 on an object that is not
\* mapped; otherwise one mapping less, and after a mapping for writing the
\* kernel is told, which can fail.
drm_intel_bo_unmap(objs, h) ==
    IF objs[h].maps <= 0 THEN { [err |-> 0, bo |-> objs] }
    ELSE LET after == [objs EXCEPT ![h].maps = @ - 1, ![h].wmap = FALSE]
         IN { [err |-> 0, bo |-> after] }
            \cup (IF objs[h].wmap THEN { [err |-> -EINVAL, bo |-> after] } ELSE {})

\* intel_bo_map: "if (err) return NULL; return gem_bo(bo)->virtual;"
intel_bo_map(objs, h, write_enable) ==
    { [ptr |-> k.err = 0, bo |-> k.bo] : k \in drm_intel_bo_map(objs, h, write_enable) }

\* intel_bo_unmap: "err = drm_intel_bo_unmap(gem_bo(bo)); assert(!err);"
intel_bo_unmap(objs, h, nd) ==
    { [bo |-> k.bo, fault |-> IF k.err # 0 /\ ~nd THEN "abort" ELSE "ok"] :
        k \in drm_intel_bo_unmap(objs, h) }

\* The library calls of one decode.
CallsMapOnly == <<"drm_intel_bo_map">>
CallsNoContext ==
    <<"drm_intel_bo_map", "drm_intel_decode_context_alloc", "drm_intel_bo_unmap">>
CallsDecoded ==
    <<"drm_intel_bo_map", "drm_intel_decode_context_alloc", "drm_intel_decode",
      "drm_intel_bo_unmap">>

\* intel_winsys_decode_bo(winsys, h, used): the three ways through it.  The
\* decoder reads the mapping and writes to stderr.
intel_winsys_decode_bo_leak(objs, h, nd) ==
    UNION { IF ~m.ptr
            THEN { [bo |-> m.bo, fault |-> "ok", path |-> "map_failed",
                    kcalls |-> CallsMapOnly] }
            ELSE { [bo |-> m.bo, fault |-> "ok", path |-> "alloc_failed",
                    kcalls |-> CallsNoContext] }
                 \cup { [bo |-> u.bo, fault |-> u.fault, path |-> "decoded",
                         kcalls |-> CallsDecoded] :
                        u \in intel_bo_unmap(m.bo, h, nd) } :
            m \in intel_bo_map(objs, h, FALSE) }
intel_winsys_decode_bo(objs, h, nd) ==
    UNION { IF ~m.ptr
            THEN { [bo |-> m.bo, fault |-> "ok", path |-> "map_failed",
                    kcalls |-> CallsMapOnly] }
            ELSE { [bo |-> u.bo, fault |-> u.fault, path |-> "alloc_failed",
                    kcalls |-> CallsNoContext] :
                   u \in intel_bo_unmap(m.bo, h, nd) }
                 \cup { [bo |-> u.bo, fault |-> u.fault, path |-> "decoded",
                         kcalls |-> CallsDecoded] :
                        u \in intel_bo_unmap(m.bo, h, nd) } :
            m \in intel_bo_map(objs, h, FALSE) }

\* A call of intel_winsys_decode_bo(winsys, h, used).
DecodeBo ==
    /\ Running /\ ws.state = "live"
    /\ \E h \in BOs :
         /\ Alive(h)
         /\ \E d \in intel_winsys_decode_bo(bo, h, ndebug) :
              /\ bo' = d.bo
              /\ fault' = d.fault
              /\ ret' = [op |-> "decode_bo", h |-> h, used |-> PAGE,
                         path |-> d.path, pre |-> bo, prerelocs |-> relocs,
                         kcalls |-> d.kcalls]
    /\ UNCHANGED <<relocs, net, ws, pend, ndebug, dev, cut, thr, layer>>

\* A call of intel_bo_map(h, write_enable) by the owner of the object.
MapBo ==
    /\ Running
    /\ \E h \in BOs, write_enable \in BOOLEAN :
         /\ Alive(h) /\ bo[h].maps < MaxMaps
         /\ \E m \in intel_bo_map(bo, h, write_enable) :
              /\ bo' = m.bo
              /\ ret' = [op |-> "map", h |-> h, write_enable |-> write_enable,
                         val |-> m.ptr, kcalls |-> <<"drm_intel_bo_map">>]
    /\ UNCHANGED <<relocs, net, fault, ws, pend, ndebug, dev, cut, thr, layer>>

\* A call of intel_bo_unmap(h) by the owner of the object.
UnmapBo ==
    /\ Running
    /\ \E h \in BOs :
         /\ Alive(h)
         /\ \E u \in intel_bo_unmap(bo, h, ndebug) :
              /\ bo' = u.bo
              /\ fault' = u.fault
              /\ ret' = [op |-> "unmap", h |-> h,
                         kcalls |-> <<"drm_intel_bo_unmap">>]
    /\ UNCHANGED <<relocs, net, ws, pend, ndebug, dev, cut, thr, layer>>

\* Two buffers, in a build with or without assertions.
InitDecode ==
    /\ bo = [b \in BOs |-> IF b <= 2 THEN NewBo(PAGE) ELSE NoBo]
    /\ relocs = [b \in BOs |-> <<>>]
    /\ net = [b \in BOs |-> IF b <= 2 THEN 1 ELSE 0]
    /\ fault = "ok"
    /\ ws = LiveWinsys(DefaultInfo)
    /\ pend = NoCall
    /\ ndebug \in BOOLEAN
    /\ dev = DefaultDev
    /\ cut = [b \in BOs |-> NoCut]
    /\ thr = [t \in Threads |-> Idle(0)]
    /\ layer = NoLayer
    /\ ret = NoCall

NextDecode ==
    \/ DecodeBo
    \/ MapBo
    \/ UnmapBo
    \/ PwriteByte
    \/ AddRelocTarget

SpecDecode == InitDecode /\ [][NextDecode]_vars

\* The number of times call occurs among the calls made.
Times(calls, call) == Cardinality({ i \in 1 .. Len(calls) : calls[i] = call })

\* C25: the diagnostic decode of a command buffer never affects the data
\* path: on each way through it (mapping fails, no decode context, decoded)
\* that returns, a successful map was matched by exactly one unmap and a
\* failed one by none, so every buffer is mapped as many times as before, and
\* the contents, relocation lists and reference counts are as before.
C25_DecodeLeavesDataPath ==
    (ret.op = "decode_bo" /\ fault = "ok") =>
       /\ ret.path \in {"map_failed", "alloc_failed", "decoded"}
       /\ Times(ret.kcalls, "drm_intel_bo_map") = 1
       /\ Times(ret.kcalls, "drm_intel_bo_unmap") =
             (IF ret.path = "map_failed" THEN 0 ELSE 1)
       /\ relocs = ret.prerelocs
       /\ \A b \in BOs :
             /\ bo[b].maps = ret.pre[b].maps
             /\ bo[b].data = ret.pre[b].data
             /\ bo[b].refcount = ret.pre[b].refcount
             /\ bo[b].state = ret.pre[b].state

\* C25 witness: the decode context could not be allocated for a buffer that
\* its owner holds mapped, has written to and has recorded a relocation in.
C25_Witness ==
    /\ ret.op = "decode_bo" /\ fault = "ok" /\ ret.path = "alloc_failed"
    /\ bo[ret.h].maps = 1 /\ ret.pre[ret.h].maps = 1
    /\ bo[ret.h].data[0] = 255
    /\ Len(relocs[ret.h]) = 1

\* ------------------------------------------------------- the info snapshot
\* Devices a winsys is created on: one with every capability, and one without
\* LLC that swizzles.
InfoDevs ==
    { DefaultDev,
      [DefaultDev EXCEPT !.has_llc = [err |-> TRUE, value |-> 0],
                         !.swizzled = TRUE] }

InitInfo ==
    /\ bo = [b \in BOs |-> NoBo]
    /\ relocs = [b \in BOs |-> <<>>]
    /\ net = [b \in BOs |-> 0]
    /\ fault = "ok"
    /\ ws = NoWinsys
    /\ pend = NoCall
    /\ ndebug = FALSE
    /\ dev \in InfoDevs
    /\ cut = [b \in BOs |-> NoCut]
    /\ thr = [t \in Threads |-> Idle(0)]
    /\ layer = NoLayer
    /\ ret = NoCall

\* The buffer operations are called on a created winsys that has one buffer.
OneBuffer == ws.state = "live" /\ bo[2].state = "none"

\* No buffer has been through tiling or handle exchange.
Untiled ==
    \A b \in BOs : /\ bo[b].tiling = "NONE" /\ bo[b].pitch = 0
                    /\ ~bo[b].flink /\ ~bo[b].prime /\ bo[b].kobj = 0

\* No buffer has been through relocation, submission or mapping.
Unsubmitted ==
    \A b \in BOs : /\ relocs[b] = <<>> /\ bo[b].maps = 0 /\ ~bo[b].wmap
                    /\ ~bo[b].busy /\ bo[b].offset64 = NoBo.offset64

\* Tiling and handle exchange on a buffer that was not submitted or mapped;
\* relocation, submission, mapping and waiting on one that was not tiled or
\* exchanged.
TilingOfLive == OneBuffer /\ Unsubmitted /\ SetTiling
ExportOfLive == OneBuffer /\ Unsubmitted /\ ExportHandle
RelocOfLive == OneBuffer /\ Untiled /\ AddRelocTarget
TruncateOfLive == OneBuffer /\ Untiled /\ TruncateAll
SubmitOfLive == OneBuffer /\ Untiled /\ SubmitRender
MapOfLive == OneBuffer /\ Untiled /\ MapBo
UnmapOfLive == OneBuffer /\ Untiled /\ UnmapBo
WaitOfLive == OneBuffer /\ Untiled /\ WaitCall

\* A winsys is destroyed before it has buffers.
DestroyUnused == (\A b \in BOs : bo[b].state = "none") /\ Destroy

NextInfo ==
    \/ Create
    \/ DestroyUnused
    \/ AllocPage
    \/ TilingOfLive
    \/ ExportOfLive
    \/ RelocOfLive
    \/ TruncateOfLive
    \/ SubmitOfLive
    \/ MapOfLive
    \/ UnmapOfLive
    \/ WaitOfLive
    \/ WaitReturn
    \/ GetResetStats

SpecInfo == InitInfo /\ [][NextInfo]_vars

\* C26: the DeviceInfo snapshot is never mutated after WinSys creation: every
\* step of an allocator, tiling, relocation, submission, mapping, wait,
\* handle-exchange or reset-stats operation on a created winsys leaves every
\* field of its info with the value it had when creation returned.
C26_InfoImmutable ==
    [][(ws.state = "live" /\ ws'.state = "live") => ws'.info = ws.info]_vars

\* C26 witness: reset stats were read from a winsys created on the device that
\* swizzles, whose info says so.
C26_Witness ==
    /\ ret.op = "get_reset_stats" /\ ret.val = 0
    /\ ws.state = "live"
    /\ ws.info.has_address_swizzling /\ ~ws.info.has_llc
    /\ \E b \in BOs : Alive(b)

\* ------------------------------------------------------ pixel format table
\* (src/icd/common/icd-format.c)

\* icd_format_table: the size in bytes and the channel count of each format.
icd_format_table ==
    ("VK_FMT_UNDEFINED" :> [size |-> 0, channel_count |-> 0]) @@
    ("VK_FMT_R4G4_UNORM" :> [size |-> 1, channel_count |-> 2]) @@
    ("VK_FMT_R4G4_USCALED" :> [size |-> 1, channel_count |-> 2]) @@
    ("VK_FMT_R4G4B4A4_UNORM" :> [size |-> 2, channel_count |-> 4]) @@
    ("VK_FMT_R4G4B4A4_USCALED" :> [size |-> 2, channel_count |-> 4]) @@
    ("VK_FMT_R5G6B5_UNORM" :> [size |-> 2, channel_count |-> 3]) @@
    ("VK_FMT_R5G6B5_USCALED" :> [size |-> 2, channel_count |-> 3]) @@
    ("VK_FMT_R5G5B5A1_UNORM" :> [size |-> 2, channel_count |-> 4]) @@
    ("VK_FMT_R5G5B5A1_USCALED" :> [size |-> 2, channel_count |-> 4]) @@
    ("VK_FMT_R8_UNORM" :> [size |-> 1, channel_count |-> 1]) @@
    ("VK_FMT_R8_SNORM" :> [size |-> 1, channel_count |-> 1]) @@
    ("VK_FMT_R8_USCALED" :> [size |-> 1, channel_count |-> 1]) @@
    ("VK_FMT_R8_SSCALED" :> [size |-> 1, channel_count |-> 1]) @@
    ("VK_FMT_R8_UINT" :> [size |-> 1, channel_count |-> 1]) @@
    ("VK_FMT_R8_SINT" :> [size |-> 1, channel_count |-> 1]) @@
    ("VK_FMT_R8_SRGB" :> [size |-> 1, channel_count |-> 1]) @@
    ("VK_FMT_R8G8_UNORM" :> [size |-> 2, channel_count |-> 2]) @@
    ("VK_FMT_R8G8_SNORM" :> [size |-> 2, channel_count |-> 2]) @@
    ("VK_FMT_R8G8_USCALED" :> [size |-> 2, channel_count |-> 2]) @@
    ("VK_FMT_R8G8_SSCALED" :> [size |-> 2, channel_count |-> 2]) @@
    ("VK_FMT_R8G8_UINT" :> [size |-> 2, channel_count |-> 2]) @@
    ("VK_FMT_R8G8_SINT" :> [size |-> 2, channel_count |-> 2]) @@
    ("VK_FMT_R8G8_SRGB" :> [size |-> 2, channel_count |-> 2]) @@
    ("VK_FMT_R8G8B8_UNORM" :> [size |-> 3, channel_count |-> 3]) @@
    ("VK_FMT_R8G8B8_SNORM" :> [size |-> 3, channel_count |-> 3]) @@
    ("VK_FMT_R8G8B8_USCALED" :> [size |-> 3, channel_count |-> 3]) @@
    ("VK_FMT_R8G8B8_SSCALED" :> [size |-> 3, channel_count |-> 3]) @@
    ("VK_FMT_R8G8B8_UINT" :> [size |-> 3, channel_count |-> 3]) @@
    ("VK_FMT_R8G8B8_SINT" :> [size |-> 3, channel_count |-> 3]) @@
    ("VK_FMT_R8G8B8_SRGB" :> [size |-> 3, channel_count |-> 3]) @@
    ("VK_FMT_R8G8B8A8_UNORM" :> [size |-> 4, channel_count |-> 4]) @@
    ("VK_FMT_R8G8B8A8_SNORM" :> [size |-> 4, channel_count |-> 4]) @@
    ("VK_FMT_R8G8B8A8_USCALED" :> [size |-> 4, channel_count |-> 4]) @@
    ("VK_FMT_R8G8B8A8_SSCALED" :> [size |-> 4, channel_count |-> 4]) @@
    ("VK_FMT_R8G8B8A8_UINT" :> [size |-> 4, channel_count |-> 4]) @@
    ("VK_FMT_R8G8B8A8_SINT" :> [size |-> 4, channel_count |-> 4]) @@
    ("VK_FMT_R8G8B8A8_SRGB" :> [size |-> 4, channel_count |-> 4]) @@
    ("VK_FMT_R10G10B10A2_UNORM" :> [size |-> 4, channel_count |-> 4]) @@
    ("VK_FMT_R10G10B10A2_SNORM" :> [size |-> 4, channel_count |-> 4]) @@
    ("VK_FMT_R10G10B10A2_USCALED" :> [size |-> 4, channel_count |-> 4]) @@
    ("VK_FMT_R10G10B10A2_SSCALED" :> [size |-> 4, channel_count |-> 4]) @@
    ("VK_FMT_R10G10B10A2_UINT" :> [size |-> 4, channel_count |-> 4]) @@
    ("VK_FMT_R10G10B10A2_SINT" :> [size |-> 4, channel_count |-> 4]) @@
    ("VK_FMT_R16_UNORM" :> [size |-> 2, channel_count |-> 1]) @@
    ("VK_FMT_R16_SNORM" :> [size |-> 2, channel_count |-> 1]) @@
    ("VK_FMT_R16_USCALED" :> [size |-> 2, channel_count |-> 1]) @@
    ("VK_FMT_R16_SSCALED" :> [size |-> 2, channel_count |-> 1]) @@
    ("VK_FMT_R16_UINT" :> [size |-> 2, channel_count |-> 1]) @@
    ("VK_FMT_R16_SINT" :> [size |-> 2, channel_count |-> 1]) @@
    ("VK_FMT_R16_SFLOAT" :> [size |-> 2, channel_count |-> 1]) @@
    ("VK_FMT_R16G16_UNORM" :> [size |-> 4, channel_count |-> 2]) @@
    ("VK_FMT_R16G16_SNORM" :> [size |-> 4, channel_count |-> 2]) @@
    ("VK_FMT_R16G16_USCALED" :> [size |-> 4, channel_count |-> 2]) @@
    ("VK_FMT_R16G16_SSCALED" :> [size |-> 4, channel_count |-> 2]) @@
    ("VK_FMT_R16G16_UINT" :> [size |-> 4, channel_count |-> 2]) @@
    ("VK_FMT_R16G16_SINT" :> [size |-> 4, channel_count |-> 2]) @@
    ("VK_FMT_R16G16_SFLOAT" :> [size |-> 4, channel_count |-> 2]) @@
    ("VK_FMT_R16G16B16_UNORM" :> [size |-> 6, channel_count |-> 3]) @@
    ("VK_FMT_R16G16B16_SNORM" :> [size |-> 6, channel_count |-> 3]) @@
    ("VK_FMT_R16G16B16_USCALED" :> [size |-> 6, channel_count |-> 3]) @@
    ("VK_FMT_R16G16B16_SSCALED" :> [size |-> 6, channel_count |-> 3]) @@
    ("VK_FMT_R16G16B16_UINT" :> [size |-> 6, channel_count |-> 3]) @@
    ("VK_FMT_R16G16B16_SINT" :> [size |-> 6, channel_count |-> 3]) @@
    ("VK_FMT_R16G16B16_SFLOAT" :> [size |-> 6, channel_count |-> 3]) @@
    ("VK_FMT_R16G16B16A16_UNORM" :> [size |-> 8, channel_count |-> 4]) @@
    ("VK_FMT_R16G16B16A16_SNORM" :> [size |-> 8, channel_count |-> 4]) @@
    ("VK_FMT_R16G16B16A16_USCALED" :> [size |-> 8, channel_count |-> 4]) @@
    ("VK_FMT_R16G16B16A16_SSCALED" :> [size |-> 8, channel_count |-> 4]) @@
    ("VK_FMT_R16G16B16A16_UINT" :> [size |-> 8, channel_count |-> 4]) @@
    ("VK_FMT_R16G16B16A16_SINT" :> [size |-> 8, channel_count |-> 4]) @@
    ("VK_FMT_R16G16B16A16_SFLOAT" :> [size |-> 8, channel_count |-> 4]) @@
    ("VK_FMT_R32_UINT" :> [size |-> 4, channel_count |-> 1]) @@
    ("VK_FMT_R32_SINT" :> [size |-> 4, channel_count |-> 1]) @@
    ("VK_FMT_R32_SFLOAT" :> [size |-> 4, channel_count |-> 1]) @@
    ("VK_FMT_R32G32_UINT" :> [size |-> 8, channel_count |-> 2]) @@
    ("VK_FMT_R32G32_SINT" :> [size |-> 8, channel_count |-> 2]) @@
    ("VK_FMT_R32G32_SFLOAT" :> [size |-> 8, channel_count |-> 2]) @@
    ("VK_FMT_R32G32B32_UINT" :> [size |-> 12, channel_count |-> 3]) @@
    ("VK_FMT_R32G32B32_SINT" :> [size |-> 12, channel_count |-> 3]) @@
    ("VK_FMT_R32G32B32_SFLOAT" :> [size |-> 12, channel_count |-> 3]) @@
    ("VK_FMT_R32G32B32A32_UINT" :> [size |-> 16, channel_count |-> 4]) @@
    ("VK_FMT_R32G32B32A32_SINT" :> [size |-> 16, channel_count |-> 4]) @@
    ("VK_FMT_R32G32B32A32_SFLOAT" :> [size |-> 16, channel_count |-> 4]) @@
    ("VK_FMT_R64_SFLOAT" :> [size |-> 8, channel_count |-> 1]) @@
    ("VK_FMT_R64G64_SFLOAT" :> [size |-> 16, channel_count |-> 2]) @@
    ("VK_FMT_R64G64B64_SFLOAT" :> [size |-> 24, channel_count |-> 3]) @@
    ("VK_FMT_R64G64B64A64_SFLOAT" :> [size |-> 32, channel_count |-> 4]) @@
    ("VK_FMT_R11G11B10_UFLOAT" :> [size |-> 4, channel_count |-> 3]) @@
    ("VK_FMT_R9G9B9E5_UFLOAT" :> [size |-> 4, channel_count |-> 3]) @@
    ("VK_FMT_D16_UNORM" :> [size |-> 2, channel_count |-> 1]) @@
    ("VK_FMT_D24_UNORM" :> [size |-> 3, channel_count |-> 1]) @@
    ("VK_FMT_D32_SFLOAT" :> [size |-> 4, channel_count |-> 1]) @@
    ("VK_FMT_S8_UINT" :> [size |-> 1, channel_count |-> 1]) @@
    ("VK_FMT_D16_UNORM_S8_UINT" :> [size |-> 3, channel_count |-> 2]) @@
    ("VK_FMT_D24_UNORM_S8_UINT" :> [size |-> 4, channel_count |-> 2]) @@
    ("VK_FMT_D32_SFLOAT_S8_UINT" :> [size |-> 4, channel_count |-> 2]) @@
    ("VK_FMT_BC1_RGB_UNORM" :> [size |-> 8, channel_count |-> 4]) @@
    ("VK_FMT_BC1_RGB_SRGB" :> [size |-> 8, channel_count |-> 4]) @@
    ("VK_FMT_BC1_RGBA_UNORM" :> [size |-> 8, channel_count |-> 4]) @@
    ("VK_FMT_BC1_RGBA_SRGB" :> [size |-> 8, channel_count |-> 4]) @@
    ("VK_FMT_BC2_UNORM" :> [size |-> 16, channel_count |-> 4]) @@
    ("VK_FMT_BC2_SRGB" :> [size |-> 16, channel_count |-> 4]) @@
    ("VK_FMT_BC3_UNORM" :> [size |-> 16, channel_count |-> 4]) @@
    ("VK_FMT_BC3_SRGB" :> [size |-> 16, channel_count |-> 4]) @@
    ("VK_FMT_BC4_UNORM" :> [size |-> 8, channel_count |-> 4]) @@
    ("VK_FMT_BC4_SNORM" :> [size |-> 8, channel_count |-> 4]) @@
    ("VK_FMT_BC5_UNORM" :> [size |-> 16, channel_count |-> 4]) @@
    ("VK_FMT_BC5_SNORM" :> [size |-> 16, channel_count |-> 4]) @@
    ("VK_FMT_BC6H_UFLOAT" :> [size |-> 16, channel_count |-> 4]) @@
    ("VK_FMT_BC6H_SFLOAT" :> [size |-> 16, channel_count |-> 4]) @@
    ("VK_FMT_BC7_UNORM" :> [size |-> 16, channel_count |-> 4]) @@
    ("VK_FMT_BC7_SRGB" :> [size |-> 16, channel_count |-> 4]) @@
    ("VK_FMT_ETC2_R8G8B8_UNORM" :> [size |-> 0, channel_count |-> 0]) @@
    ("VK_FMT_ETC2_R8G8B8A1_UNORM" :> [size |-> 0, channel_count |-> 0]) @@
    ("VK_FMT_ETC2_R8G8B8A8_UNORM" :> [size |-> 0, channel_count |-> 0]) @@
    ("VK_FMT_EAC_R11_UNORM" :> [size |-> 0, channel_count |-> 0]) @@
    ("VK_FMT_EAC_R11_SNORM" :> [size |-> 0, channel_count |-> 0]) @@
    ("VK_FMT_EAC_R11G11_UNORM" :> [size |-> 0, channel_count |-> 0]) @@
    ("VK_FMT_EAC_R11G11_SNORM" :> [size |-> 0, channel_count |-> 0]) @@
    ("VK_FMT_ASTC_4x4_UNORM" :> [size |-> 0, channel_count |-> 0]) @@
    ("VK_FMT_ASTC_4x4_SRGB" :> [size |-> 0, channel_count |-> 0]) @@
    ("VK_FMT_ASTC_5x4_UNORM" :> [size |-> 0, channel_count |-> 0]) @@
    ("VK_FMT_ASTC_5x4_SRGB" :> [size |-> 0, channel_count |-> 0]) @@
    ("VK_FMT_ASTC_5x5_UNORM" :> [size |-> 0, channel_count |-> 0]) @@
    ("VK_FMT_ASTC_5x5_SRGB" :> [size |-> 0, channel_count |-> 0]) @@
    ("VK_FMT_ASTC_6x5_UNORM" :> [size |-> 0, channel_count |-> 0]) @@
    ("VK_FMT_ASTC_6x5_SRGB" :> [size |-> 0, channel_count |-> 0]) @@
    ("VK_FMT_ASTC_6x6_UNORM" :> [size |-> 0, channel_count |-> 0]) @@
    ("VK_FMT_ASTC_6x6_SRGB" :> [size |-> 0, channel_count |-> 0]) @@
    ("VK_FMT_ASTC_8x5_UNORM" :> [size |-> 0, channel_count |-> 0]) @@
    ("VK_FMT_ASTC_8x5_SRGB" :> [size |-> 0, channel_count |-> 0]) @@
    ("VK_FMT_ASTC_8x6_UNORM" :> [size |-> 0, channel_count |-> 0]) @@
    ("VK_FMT_ASTC_8x6_SRGB" :> [size |-> 0, channel_count |-> 0]) @@
    ("VK_FMT_ASTC_8x8_UNORM" :> [size |-> 0, channel_count |-> 0]) @@
    ("VK_FMT_ASTC_8x8_SRGB" :> [size |-> 0, channel_count |-> 0]) @@
    ("VK_FMT_ASTC_10x5_UNORM" :> [size |-> 0, channel_count |-> 0]) @@
    ("VK_FMT_ASTC_10x5_SRGB" :> [size |-> 0, channel_count |-> 0]) @@
    ("VK_FMT_ASTC_10x6_UNORM" :> [size |-> 0, channel_count |-> 0]) @@
    ("VK_FMT_ASTC_10x6_SRGB" :> [size |-> 0, channel_count |-> 0]) @@
    ("VK_FMT_ASTC_10x8_UNORM" :> [size |-> 0, channel_count |-> 0]) @@
    ("VK_FMT_ASTC_10x8_SRGB" :> [size |-> 0, channel_count |-> 0]) @@
    ("VK_FMT_ASTC_10x10_UNORM" :> [size |-> 0, channel_count |-> 0]) @@
    ("VK_FMT_ASTC_10x10_SRGB" :> [size |-> 0, channel_count |-> 0]) @@
    ("VK_FMT_ASTC_12x10_UNORM" :> [size |-> 0, channel_count |-> 0]) @@
    ("VK_FMT_ASTC_12x10_SRGB" :> [size |-> 0, channel_count |-> 0]) @@
    ("VK_FMT_ASTC_12x12_UNORM" :> [size |-> 0, channel_count |-> 0]) @@
    ("VK_FMT_ASTC_12x12_SRGB" :> [size |-> 0, channel_count |-> 0]) @@
    ("VK_FMT_B5G6R5_UNORM" :> [size |-> 2, channel_count |-> 3]) @@
    ("VK_FMT_B5G6R5_USCALED" :> [size |-> 2, channel_count |-> 3]) @@
    ("VK_FMT_B8G8R8_UNORM" :> [size |-> 3, channel_count |-> 3]) @@
    ("VK_FMT_B8G8R8_SNORM" :> [size |-> 3, channel_count |-> 3]) @@
    ("VK_FMT_B8G8R8_USCALED" :> [size |-> 3, channel_count |-> 3]) @@
    ("VK_FMT_B8G8R8_SSCALED" :> [size |-> 3, channel_count |-> 3]) @@
    ("VK_FMT_B8G8R8_UINT" :> [size |-> 3, channel_count |-> 3]) @@
    ("VK_FMT_B8G8R8_SINT" :> [size |-> 3, channel_count |-> 3]) @@
    ("VK_FMT_B8G8R8_SRGB" :> [size |-> 3, channel_count |-> 3]) @@
    ("VK_FMT_B8G8R8A8_UNORM" :> [size |-> 4, channel_count |-> 4]) @@
    ("VK_FMT_B8G8R8A8_SNORM" :> [size |-> 4, channel_count |-> 4]) @@
    ("VK_FMT_B8G8R8A8_USCALED" :> [size |-> 4, channel_count |-> 4]) @@
    ("VK_FMT_B8G8R8A8_SSCALED" :> [size |-> 4, channel_count |-> 4]) @@
    ("VK_FMT_B8G8R8A8_UINT" :> [size |-> 4, channel_count |-> 4]) @@
    ("VK_FMT_B8G8R8A8_SINT" :> [size |-> 4, channel_count |-> 4]) @@
    ("VK_FMT_B8G8R8A8_SRGB" :> [size |-> 4, channel_count |-> 4]) @@
    ("VK_FMT_B10G10R10A2_UNORM" :> [size |-> 4, channel_count |-> 4]) @@
    ("VK_FMT_B10G10R10A2_SNORM" :> [size |-> 4, channel_count |-> 4]) @@
    ("VK_FMT_B10G10R10A2_USCALED" :> [size |-> 4, channel_count |-> 4]) @@
    ("VK_FMT_B10G10R10A2_SSCALED" :> [size |-> 4, channel_count |-> 4]) @@
    ("VK_FMT_B10G10R10A2_UINT" :> [size |-> 4, channel_count |-> 4]) @@
    ("VK_FMT_B10G10R10A2_SINT" :> [size |-> 4, channel_count |-> 4])

Formats == DOMAIN icd_format_table

\* icd_format_get_size: "return icd_format_table[format].size"
icd_format_get_size(format) == icd_format_table[format].size

\* Bit i of the value laid out by fields, each <<value, width in bits>>, the
\* first field lowest.  The values are below 2^31.
RECURSIVE FieldBit(_, _)
FieldBit(fields, i) ==
    IF fields = <<>> THEN 0
    ELSE LET f == Head(fields)
         IN IF i < f[2] THEN (IF i > 30 THEN 0 ELSE (f[1] \div 2 ^ i) % 2)
            ELSE FieldBit(Tail(fields), i - f[2])

\* Byte k of that value, little-endian ("assume little-endian").
ByteOf(fields, k) ==
    LET RECURSIVE Sum(_)
        Sum(j) == IF j > 7 THEN 0
                  ELSE FieldBit(fields, 8 * k + j) * 2 ^ j + Sum(j + 1)
    IN Sum(0)

\* One assignment through value: n bytes stored from byte offset at.
Store(at, n, fields) ==
    [at |-> at, bytes |-> [k \in 1 .. n |-> ByteOf(fields, k - 1)]]

\* icd_format_get_raw_value(format, color, value): the stores the case of
\* the format makes into value, in order; a format without a case reaches
\* the default branch, which stores nothing.
icd_format_get_raw_value(format, color) ==
    CASE format \in
           {"VK_FMT_UNDEFINED"} ->
           [handled |-> TRUE,
            stores |-> <<>>]
      [] format \in
           {"VK_FMT_R4G4_UNORM", "VK_FMT_R4G4_USCALED"} ->
           [handled |-> TRUE,
            stores |-> <<Store(0, 1, <<<<color[1], 4>>, <<color[2], 4>>>>)>>]
      [] format \in
           {"VK_FMT_R4G4B4A4_UNORM", "VK_FMT_R4G4B4A4_USCALED"} ->
           [handled |-> TRUE,
            stores |-> <<Store(0, 2, <<<<color[1], 4>>, <<color[2], 4>>, <<color[3], 4>>, <<color[4], 4>>>>)>>]
      [] format \in
           {"VK_FMT_R5G6B5_UNORM", "VK_FMT_R5G6B5_USCALED"} ->
           [handled |-> TRUE,
            stores |-> <<Store(0, 2, <<<<color[1], 5>>, <<color[2], 6>>, <<color[3], 5>>>>)>>]
      [] format \in
           {"VK_FMT_B5G6R5_UNORM"} ->
           [handled |-> TRUE,
            stores |-> <<Store(0, 2, <<<<color[3], 5>>, <<color[2], 6>>, <<color[1], 5>>>>)>>]
      [] format \in
           {"VK_FMT_R5G5B5A1_UNORM", "VK_FMT_R5G5B5A1_USCALED"} ->
           [handled |-> TRUE,
            stores |-> <<Store(0, 2, <<<<color[1], 5>>, <<color[2], 5>>, <<color[3], 5>>, <<color[4], 1>>>>)>>]
      [] format \in
           {"VK_FMT_R8_UNORM", "VK_FMT_R8_SNORM", "VK_FMT_R8_USCALED",
            "VK_FMT_R8_SSCALED", "VK_FMT_R8_UINT", "VK_FMT_R8_SINT",
            "VK_FMT_R8_SRGB"} ->
           [handled |-> TRUE,
            stores |-> <<Store(0, 1, <<<<color[1], 8>>>>)>>]
      [] format \in
           {"VK_FMT_R8G8_UNORM", "VK_FMT_R8G8_SNORM", "VK_FMT_R8G8_USCALED",
            "VK_FMT_R8G8_SSCALED", "VK_FMT_R8G8_UINT", "VK_FMT_R8G8_SINT",
            "VK_FMT_R8G8_SRGB"} ->
           [handled |-> TRUE,
            stores |-> <<Store(0, 1, <<<<color[1], 8>>>>),
                         Store(1, 1, <<<<color[2], 8>>>>)>>]
      [] format \in
           {"VK_FMT_R8G8B8A8_UNORM", "VK_FMT_R8G8B8A8_SNORM",
            "VK_FMT_R8G8B8A8_USCALED", "VK_FMT_R8G8B8A8_SSCALED",
            "VK_FMT_R8G8B8A8_UINT", "VK_FMT_R8G8B8A8_SINT",
            "VK_FMT_R8G8B8A8_SRGB"} ->
           [handled |-> TRUE,
            stores |-> <<Store(0, 1, <<<<color[1], 8>>>>),
                         Store(1, 1, <<<<color[2], 8>>>>),
                         Store(2, 1, <<<<color[3], 8>>>>),
                         Store(3, 1, <<<<color[4], 8>>>>)>>]
      [] format \in
           {"VK_FMT_B8G8R8A8_UNORM", "VK_FMT_B8G8R8A8_SRGB"} ->
           [handled |-> TRUE,
            stores |-> <<Store(0, 1, <<<<color[3], 8>>>>),
                         Store(1, 1, <<<<color[2], 8>>>>),
                         Store(2, 1, <<<<color[1], 8>>>>),
                         Store(3, 1, <<<<color[4], 8>>>>)>>]
      [] format \in
           {"VK_FMT_R11G11B10_UFLOAT"} ->
           [handled |-> TRUE,
            stores |-> <<Store(0, 4, <<<<color[1], 11>>, <<color[2], 11>>, <<color[3], 10>>>>)>>]
      [] format \in
           {"VK_FMT_R10G10B10A2_UNORM", "VK_FMT_R10G10B10A2_SNORM",
            "VK_FMT_R10G10B10A2_USCALED", "VK_FMT_R10G10B10A2_SSCALED",
            "VK_FMT_R10G10B10A2_UINT", "VK_FMT_R10G10B10A2_SINT"} ->
           [handled |-> TRUE,
            stores |-> <<Store(0, 4, <<<<color[1], 10>>, <<color[2], 10>>, <<color[3], 10>>, <<color[4], 2>>>>)>>]
      [] format \in
           {"VK_FMT_R16_UNORM", "VK_FMT_R16_SNORM", "VK_FMT_R16_USCALED",
            "VK_FMT_R16_SSCALED", "VK_FMT_R16_UINT", "VK_FMT_R16_SINT",
            "VK_FMT_R16_SFLOAT"} ->
           [handled |-> TRUE,
            stores |-> <<Store(0, 2, <<<<color[1], 16>>>>)>>]
      [] format \in
           {"VK_FMT_R16G16_UNORM", "VK_FMT_R16G16_SNORM",
            "VK_FMT_R16G16_USCALED", "VK_FMT_R16G16_SSCALED",
            "VK_FMT_R16G16_UINT", "VK_FMT_R16G16_SINT",
            "VK_FMT_R16G16_SFLOAT"} ->
           [handled |-> TRUE,
            stores |-> <<Store(0, 2, <<<<color[1], 16>>>>),
                         Store(2, 2, <<<<color[2], 16>>>>)>>]
      [] format \in
           {"VK_FMT_R16G16B16A16_UNORM", "VK_FMT_R16G16B16A16_SNORM",
            "VK_FMT_R16G16B16A16_USCALED", "VK_FMT_R16G16B16A16_SSCALED",
            "VK_FMT_R16G16B16A16_UINT", "VK_FMT_R16G16B16A16_SINT",
            "VK_FMT_R16G16B16A16_SFLOAT"} ->
           [handled |-> TRUE,
            stores |-> <<Store(0, 2, <<<<color[1], 16>>>>),
                         Store(2, 2, <<<<color[2], 16>>>>),
                         Store(4, 2, <<<<color[3], 16>>>>),
                         Store(6, 2, <<<<color[4], 16>>>>)>>]
      [] format \in
           {"VK_FMT_R32_UINT", "VK_FMT_R32_SINT", "VK_FMT_R32_SFLOAT"} ->
           [handled |-> TRUE,
            stores |-> <<Store(0, 4, <<<<color[1], 32>>>>)>>]
      [] format \in
           {"VK_FMT_R32G32_UINT", "VK_FMT_R32G32_SINT",
            "VK_FMT_R32G32_SFLOAT"} ->
           [handled |-> TRUE,
            stores |-> <<Store(0, 4, <<<<color[1], 32>>>>),
                         Store(4, 4, <<<<color[2], 32>>>>)>>]
      [] format \in
           {"VK_FMT_R32G32B32_UINT", "VK_FMT_R32G32B32_SINT",
            "VK_FMT_R32G32B32_SFLOAT"} ->
           [handled |-> TRUE,
            stores |-> <<Store(0, 4, <<<<color[1], 32>>>>),
                         Store(4, 4, <<<<color[2], 32>>>>),
                         Store(8, 4, <<<<color[3], 32>>>>)>>]
      [] format \in
           {"VK_FMT_R32G32B32A32_UINT", "VK_FMT_R32G32B32A32_SINT",
            "VK_FMT_R32G32B32A32_SFLOAT"} ->
           [handled |-> TRUE,
            stores |-> <<Store(0, 4, <<<<color[1], 32>>>>),
                         Store(4, 4, <<<<color[2], 32>>>>),
                         Store(8, 4, <<<<color[3], 32>>>>),
                         Store(12, 4, <<<<color[4], 32>>>>)>>]
      [] format \in
           {"VK_FMT_D16_UNORM_S8_UINT"} ->
           [handled |-> TRUE,
            stores |-> <<Store(0, 2, <<<<color[1], 16>>>>),
                         Store(2, 1, <<<<color[2], 8>>>>)>>]
      [] format \in
           {"VK_FMT_D32_SFLOAT_S8_UINT"} ->
           [handled |-> TRUE,
            stores |-> <<Store(0, 4, <<<<color[1], 32>>>>),
                         Store(4, 1, <<<<color[2], 8>>>>)>>]
      [] format \in
           {"VK_FMT_R9G9B9E5_UFLOAT"} ->
           [handled |-> TRUE,
            stores |-> <<Store(0, 4, <<<<color[1], 9>>, <<color[2], 9>>, <<color[3], 9>>, <<color[4], 5>>>>)>>]
      [] format \in
           {"VK_FMT_BC1_RGB_UNORM", "VK_FMT_BC1_RGB_SRGB",
            "VK_FMT_BC4_UNORM", "VK_FMT_BC4_SNORM"} ->
           [handled |-> TRUE,
            stores |-> <<Store(0, 8, <<<<color[1], 32>>, <<color[2], 32>>>>)>>]
      [] format \in
           {"VK_FMT_BC2_UNORM", "VK_FMT_BC2_SRGB", "VK_FMT_BC3_UNORM",
            "VK_FMT_BC3_SRGB", "VK_FMT_BC5_UNORM", "VK_FMT_BC5_SNORM",
            "VK_FMT_BC6H_UFLOAT", "VK_FMT_BC6H_SFLOAT", "VK_FMT_BC7_UNORM",
            "VK_FMT_BC7_SRGB"} ->
           [handled |-> TRUE,
            stores |-> <<Store(0, 16, <<<<color[1], 32>>, <<color[2], 32>>, <<color[3], 32>>, <<color[4], 32>>>>)>>]
      [] format \in
           {"VK_FMT_R8G8B8_UNORM", "VK_FMT_R8G8B8_SNORM",
            "VK_FMT_R8G8B8_USCALED", "VK_FMT_R8G8B8_SSCALED",
            "VK_FMT_R8G8B8_UINT", "VK_FMT_R8G8B8_SINT", "VK_FMT_R8G8B8_SRGB"} ->
           [handled |-> TRUE,
            stores |-> <<Store(0, 1, <<<<color[1], 8>>>>),
                         Store(1, 1, <<<<color[2], 8>>>>),
                         Store(2, 1, <<<<color[3], 8>>>>)>>]
      [] format \in
           {"VK_FMT_R16G16B16_UNORM", "VK_FMT_R16G16B16_SNORM",
            "VK_FMT_R16G16B16_USCALED", "VK_FMT_R16G16B16_SSCALED",
            "VK_FMT_R16G16B16_UINT", "VK_FMT_R16G16B16_SINT",
            "VK_FMT_R16G16B16_SFLOAT"} ->
           [handled |-> TRUE,
            stores |-> <<Store(0, 2, <<<<color[1], 16>>>>),
                         Store(2, 2, <<<<color[2], 16>>>>),
                         Store(4, 2, <<<<color[3], 16>>>>)>>]
      [] format \in
           {"VK_FMT_B10G10R10A2_UNORM", "VK_FMT_B10G10R10A2_SNORM",
            "VK_FMT_B10G10R10A2_USCALED", "VK_FMT_B10G10R10A2_SSCALED",
            "VK_FMT_B10G10R10A2_UINT", "VK_FMT_B10G10R10A2_SINT"} ->
           [handled |-> TRUE,
            stores |-> <<Store(0, 4, <<<<color[3], 10>>, <<color[2], 10>>, <<color[1], 10>>, <<color[4], 2>>>>)>>]
      [] format \in
           {"VK_FMT_R64_SFLOAT"} ->
           [handled |-> TRUE,
            stores |-> <<Store(0, 8, <<<<color[1], 32>>, <<0, 32>>>>)>>]
      [] format \in
           {"VK_FMT_R64G64_SFLOAT"} ->
           [handled |-> TRUE,
            stores |-> <<Store(0, 8, <<<<color[1], 32>>, <<0, 32>>>>),
                         Store(8, 8, <<<<color[2], 32>>, <<0, 32>>>>)>>]
      [] format \in
           {"VK_FMT_R64G64B64_SFLOAT"} ->
           [handled |-> TRUE,
            stores |-> <<Store(0, 8, <<<<color[1], 32>>, <<0, 32>>>>),
                         Store(8, 8, <<<<color[2], 32>>, <<0, 32>>>>),
                         Store(16, 8, <<<<color[3], 32>>, <<0, 32>>>>)>>]
      [] format \in
           {"VK_FMT_R64G64B64A64_SFLOAT"} ->
           [handled |-> TRUE,
            stores |-> <<Store(0, 8, <<<<color[1], 32>>, <<0, 32>>>>),
                         Store(8, 8, <<<<color[2], 32>>, <<0, 32>>>>),
                         Store(16, 8, <<<<color[3], 32>>, <<0, 32>>>>),
                         Store(24, 8, <<<<color[4], 32>>, <<0, 32>>>>)>>]
      [] OTHER -> [handled |-> FALSE, stores |-> <<>>]

\* The byte offsets of value that the stores write.
Written(stores) ==
    UNION { stores[i].at .. (stores[i].at + Len(stores[i].bytes) - 1) :
            i \in 1 .. Len(stores) }

\* Raw colours: (0xABCD, 0x7FFFFFFF, 1, 0x1234) and (0xFF, 0, 0x3FF, 3).
Colors == { <<43981, 2147483647, 1, 4660>>, <<255, 0, 1023, 3>> }

\* A call of icd_format_get_raw_value(format, color, value).
GetRawValue ==
    /\ \E format \in Formats, color \in Colors :
         LET r == icd_format_get_raw_value(format, color)
         IN ret' = [op |-> "get_raw_value", format |-> format, color |-> color,
                    size |-> icd_format_get_size(format),
                    handled |-> r.handled, stores |-> r.stores]
    /\ UNCHANGED <<bo, relocs, net, fault, ws, pend, ndebug, dev, cut, thr, layer>>

NextFormat == GetRawValue

SpecFormat == Init /\ [][NextFormat]_vars

\* C27: for every format that icd_format_get_raw_value handles, the function
\* writes only bytes at positions below icd_format_get_size(format) of the
\* output: a buffer of exactly that many bytes is always sufficient.
C27_WritesWithinSize ==
    (ret.op = "get_raw_value" /\ ret.handled) =>
       \A pos \in Written(ret.stores) : pos < ret.size

\* The call for D32_SFLOAT_S8_UINT, whose size is 4, stored the stencil byte
\* at offset 4.
C27_StencilPastSize ==
    /\ ret.op = "get_raw_value" /\ ret.format = "VK_FMT_D32_SFLOAT_S8_UINT"
    /\ ret.size = 4 /\ 4 \in Written(ret.stores)
    /\ ret.stores[1].bytes = <<205, 171, 0, 0>> /\ ret.stores[2].bytes = <<255>>

\* Every other handled format stays within its size.
OtherFormatsWithinSize ==
    (ret.op = "get_raw_value" /\ ret.handled
     /\ ret.format # "VK_FMT_D32_SFLOAT_S8_UINT") =>
       \A pos \in Written(ret.stores) : pos < ret.size

\* ------------------------------------------------------------------------
\* The screenshot layer (src/layers/screenshot.cpp): it intercepts the
\* application's Vulkan calls, registers devices, swapchains and images in
\* four maps, and dumps the presented image of the frames that the
\* environment variable _VK_SCREENSHOT names.

MaxImages == 2
MaxFrames == 3
MaxEnv == 3

Results == {"VK_SUCCESS", "VK_ERROR_DEVICE_LOST"}
Swapchains == {"swapchainA", "swapchainB"}
ImageIndices == 0 .. MaxImages - 1
\* The handle of image i of swapchain s, as the driver hands it out.
ImageOf(s, i) == <<s, i>>
ImagesOf(s, n) == [i \in 1 .. n |-> ImageOf(s, i - 1)]

\* std::map: find, operator[] and insert (which keeps an entry it finds).
Has(m, k) == k \in DOMAIN m
Put(m, k, v) == (k :> v) @@ m
Insert(m, k, v) == IF Has(m, k) THEN m ELSE Put(m, k, v)

\* A freshly allocated DeviceMapStruct: no constructor, nothing is set.
NewDeviceMapStruct == [queue |-> "unset", commandPool |-> "unset", physicalDevice |-> "unset"]
DeviceEntry(m, device) == IF Has(m, device) THEN m[device] ELSE NewDeviceMapStruct

\* The test `screenshotEnvQueried && screenshotFrames.empty()` that the
\* registering entry points start with.
ScreenshotsDone(L) == L.screenshotEnvQueried /\ L.screenshotFrames = <<>>

Digits == <<"0", "1", "2", "3", "4", "5", "6", "7", "8", "9">>
IsDigit(c) == \E d \in 1 .. Len(Digits) : Digits[d] = c
DigitValue(c) == (CHOOSE d \in 1 .. Len(Digits) : Digits[d] = c) - 1
SeqRange(s) == {s[i] : i \in 1 .. Len(s)}

\* atoi: white space, an optional sign, then the leading decimal digits.
RECURSIVE atoi_digits(_, _)
atoi_digits(word, acc) ==
    IF word = <<>> \/ ~IsDigit(Head(word)) THEN acc
    ELSE atoi_digits(Tail(word), 10 * acc + DigitValue(Head(word)))
RECURSIVE atoi(_)
atoi(word) ==
    IF word = <<>> THEN 0
    ELSE IF Head(word) = " " THEN atoi(Tail(word))
    ELSE IF Head(word) = "-" THEN 0 - atoi_digits(Tail(word), 0)
    ELSE IF Head(word) = "+" THEN atoi_digits(Tail(word), 0)
    ELSE atoi_digits(word, 0)

\* string::find(',', start): positions count from 0, npos when there is none.
npos == -1
Find(spec, c, start) ==
    LET hits == {i \in start .. Len(spec) - 1 : spec[i + 1] = c}
    IN  IF hits = {} THEN npos ELSE CHOOSE i \in hits : \A j \in hits : i <= j

\* One word of the list: it is added when it starts with a digit and its
\* value is not in the list yet.
FrameAdded_again(word, frames) ==
    IF word # <<>> /\ IsDigit(Head(word)) THEN Append(frames, atoi(word)) ELSE frames
FrameAdded(word, frames) ==
    IF word # <<>> /\ IsDigit(Head(word)) /\ atoi(word) \notin SeqRange(frames)
    THEN Append(frames, atoi(word))
    ELSE frames

\* The loop of vkQueuePresentKHR over the comma separated words.
RECURSIVE ParseFrom(_, _, _)
ParseFrom(spec, start, frames) ==
    IF ~(start < Len(spec)) THEN frames
    ELSE LET comma == Find(spec, ",", start)
             word == IF comma = npos THEN SubSeq(spec, start + 1, Len(spec))
                     ELSE SubSeq(spec, start + 1, comma)
             added == FrameAdded(word, frames)
         IN  IF comma = npos THEN added ELSE ParseFrom(spec, comma + 1, added)

\* The first vkQueuePresentKHR reads _VK_SCREENSHOT (the empty sequence
\* stands for an unset or empty variable) and never reads it again.
Queried(L, frames) ==
    [L EXCEPT !.screenshotFrames = frames,
              !.parsed = Append(@, frames),
              !.getenvCalls = @ + 1,
              !.screenshotEnvQueried = TRUE]
QueryEnv(L) ==
    IF L.screenshotEnvQueried THEN L
    ELSE Queried(L, IF L.env # <<>> THEN ParseFrom(L.env, 0, L.screenshotFrames)
                    ELSE L.screenshotFrames)

\* The calls writePPM makes, in program order, when nothing fails: the linear
\* host-visible image and its memory, the command buffer with the copy, the
\* two idle waits, the mapping, one read of the mapped memory per row of a
\* recognised format (or the message for any other format, which ends the
\* loop), and the clean up.
Recognised(format) == format \in {"VK_FORMAT_B8G8R8A8_UNORM", "VK_FORMAT_R8G8B8A8_UNORM"}
Rows(format, extent) ==
    IF extent.height = 0 THEN <<>>
    ELSE IF Recognised(format)
    THEN [y \in 1 .. (IF extent.width > 0 THEN extent.height ELSE 0) |-> "read"]
    ELSE <<"printf">>
StepsOf_early(format, extent) ==
    <<"CreateImage", "GetImageMemoryRequirements", "GetPhysicalDeviceMemoryProperties",
      "memory_type_from_properties", "AllocateMemory", "BindImageMemory",
      "AllocateCommandBuffers", "emplace", "BeginCommandBuffer", "CmdCopyImage",
      "EndCommandBuffer", "QueueSubmit", "QueueWaitIdle",
      "GetImageSubresourceLayout", "MapMemory", "ofstream">>
    \o Rows(format, extent)
    \o <<"DeviceWaitIdle", "close", "UnmapMemory", "FreeMemory", "FreeCommandBuffers">>
StepsOf(format, extent) ==
    <<"CreateImage", "GetImageMemoryRequirements", "GetPhysicalDeviceMemoryProperties",
      "memory_type_from_properties", "AllocateMemory", "BindImageMemory",
      "AllocateCommandBuffers", "emplace", "BeginCommandBuffer", "CmdCopyImage",
      "EndCommandBuffer", "QueueSubmit", "QueueWaitIdle", "DeviceWaitIdle",
      "GetImageSubresourceLayout", "MapMemory", "ofstream">>
    \o Rows(format, extent)
    \o <<"close", "UnmapMemory", "FreeMemory", "FreeCommandBuffers">>

\* The calls whose result writePPM asserts.
Asserted == {"CreateImage", "memory_type_from_properties", "AllocateMemory", "BindImageMemory",
             "AllocateCommandBuffers", "BeginCommandBuffer", "EndCommandBuffer",
             "QueueSubmit", "QueueWaitIdle", "DeviceWaitIdle", "MapMemory"}

\* Where a build without assertions first uses what a failed call left
\* indeterminate: the image, the memory, the command buffer, the mapping.
\* The other failures leave nothing indeterminate.
UsedAt(fail, steps) ==
    CASE fail = "CreateImage" -> {"GetImageMemoryRequirements"}
      [] fail = "AllocateMemory" -> {"BindImageMemory"}
      [] fail = "AllocateCommandBuffers" -> {"BeginCommandBuffer"}
      [] fail = "MapMemory" -> IF "read" \in SeqRange(steps) THEN {"read"} ELSE {"UnmapMemory"}
      [] OTHER -> {}

FirstAt(steps, names) ==
    LET hits == {i \in 1 .. Len(steps) : steps[i] \in names}
    IN  IF hits = {} THEN 0 ELSE CHOOSE i \in hits : \A j \in hits : i <= j

\* The calls made when the call fail fails ("none": no call fails), and how
\* the function ends: an assertion stops it at the failed call; without
\* assertions (nd) it goes on to the first use of an indeterminate value.
RunOf(steps, fail, nd) ==
    LET at == FirstAt(steps, {fail})
        use == FirstAt(steps, UsedAt(fail, steps))
    IN  IF at = 0 THEN [steps |-> steps, fault |-> "ok"]
        ELSE IF ~nd THEN [steps |-> SubSeq(steps, 1, at), fault |-> "abort"]
        ELSE IF use # 0 THEN [steps |-> SubSeq(steps, 1, use), fault |-> "ub"]
        ELSE [steps |-> steps, fault |-> "ok"]

\* What the calls made leave behind of the objects of dump number k: an
\* object made by a call that succeeded and released by no call.
Lifecycle == {<<"CreateImage", "DestroyImage", "image">>,
              <<"AllocateMemory", "FreeMemory", "memory">>,
              <<"MapMemory", "UnmapMemory", "mapping">>,
              <<"AllocateCommandBuffers", "FreeCommandBuffers", "commandBuffer">>,
              <<"emplace", "erase", "table entry">>}
LeftBy(steps, fail, k) ==
    {<<c[3], k>> : c \in {c \in Lifecycle : /\ c[1] \in SeqRange(steps)
                                            /\ c[1] # fail
                                            /\ c[2] \notin SeqRange(steps)}}

\* The layer after the calls of run: the file exists when the function
\* returned.
Wrote(L, frame, image1, fail, run) ==
    [L |-> [L EXCEPT !.steps = run.steps,
                     !.live = @ \cup LeftBy(run.steps, fail, Len(L.dumps)),
                     !.dumps = IF run.fault = "ok"
                               THEN Append(@, [file |-> frame, image |-> image1])
                               ELSE @],
     fault |-> run.fault]

\* writePPM(filename, image1): the image's device, the device's physical
\* device and queue and the physical device's instance are fetched from the
\* maps with operator[] and dereferenced in the initialisers, before the test
\* that the image is registered: operator[] inserts a null entry for a
\* missing key, and reading through it is a null pointer read; a field never
\* set is an indeterminate handle.  The file is named by the frame number.
writePPM(L, frame, image1, fail, nd) ==
    IF ~Has(L.imageMap, image1)
    THEN [L |-> [L EXCEPT !.imageMap = Put(@, image1, "NULL")], fault |-> "segv"]
    ELSE LET device == L.imageMap[image1].device
         IN  IF ~Has(L.deviceMap, device)
             THEN [L |-> [L EXCEPT !.deviceMap = Put(@, device, "NULL")], fault |-> "segv"]
             ELSE LET d == L.deviceMap[device]
                  IN  IF ~Has(L.physDeviceMap, d.physicalDevice)
                      THEN [L |-> [L EXCEPT !.physDeviceMap = Put(@, d.physicalDevice, "NULL")],
                            fault |-> "segv"]
                      ELSE IF d.queue = "unset" \/ d.commandPool = "unset"
                           THEN [L |-> L, fault |-> "ub"]
                      ELSE Wrote(L, frame, image1, fail,
                                   RunOf(StepsOf(L.imageMap[image1].format,
                                                 L.imageMap[image1].imageExtent), fail, nd))

\* vkCreateDevice: a created device is registered with its physical device.
vkCreateDevice(L, gpu, device, result) ==
    IF result = "VK_SUCCESS"
    THEN [L EXCEPT !.deviceMap = Put(@, device, [DeviceEntry(@, device) EXCEPT !.physicalDevice = gpu])]
    ELSE L

\* vkEnumeratePhysicalDevices: the physical devices written to the array
\* (none when only the count is asked for) are registered with the instance.
RECURSIVE RegisterPhysicalDevices(_, _, _)
RegisterPhysicalDevices(m, devices, instance) ==
    IF devices = <<>> THEN m
    ELSE RegisterPhysicalDevices(Put(m, Head(devices), [instance |-> instance]), Tail(devices), instance)
vkEnumeratePhysicalDevices(L, instance, devices, result) ==
    IF result = "VK_SUCCESS" /\ devices # <<>>
    THEN [L EXCEPT !.physDeviceMap = RegisterPhysicalDevices(@, devices, instance)]
    ELSE L

\* vkGetDeviceQueue: nothing once screenshots are done, else the queue is
\* registered with the device.
vkGetDeviceQueue(L, device, queue) ==
    IF ScreenshotsDone(L) THEN L
    ELSE [L EXCEPT !.deviceMap = Put(@, device, [DeviceEntry(@, device) EXCEPT !.queue = queue])]

\* vkCreateCommandPool: nothing once screenshots are done, else what
\* *pCommandPool holds is registered with the device, whatever the result.
vkCreateCommandPool(L, device, pool) ==
    IF ScreenshotsDone(L) THEN L
    ELSE [L EXCEPT !.deviceMap = Put(@, device, [DeviceEntry(@, device) EXCEPT !.commandPool = pool])]

\* vkCreateSwapchainKHR: nothing once screenshots are done, else a created
\* swapchain is registered with its device; its image list is not set.
vkCreateSwapchainKHR(L, device, swapchain, info, result) ==
    IF ScreenshotsDone(L) THEN L
    ELSE IF result = "VK_SUCCESS"
    THEN [L EXCEPT !.swapchainMap = Insert(@, swapchain, [device |-> device, imageExtent |-> info.imageExtent,
                                                    format |-> info.format, imageList |-> <<>>])]
    ELSE L

\* vkGetSwapchainImagesKHR: nothing once screenshots are done, else the
\* images written to the array (given is FALSE when only the count is asked
\* for) are registered with the device of a registered swapchain, and become
\* the swapchain's image list when there is at least one.
RECURSIVE RegisterImages(_, _, _)
RegisterImages(m, images, elem) ==
    IF images = <<>> THEN m
    ELSE RegisterImages(Put(m, Head(images), [device |-> elem.device,
                                              imageExtent |-> elem.imageExtent,
                                              format |-> elem.format]),
                        Tail(images), elem)
vkGetSwapchainImagesKHR(L, swapchain, given, images, result) ==
    IF ScreenshotsDone(L) THEN L
    ELSE IF result = "VK_SUCCESS" /\ given /\ Has(L.swapchainMap, swapchain)
    THEN [L EXCEPT !.imageMap = RegisterImages(@, images, L.swapchainMap[swapchain]),
                   !.swapchainMap[swapchain].imageList = IF Len(images) >= 1 THEN images ELSE @]
    ELSE L

\* std::vector::erase of the element found.
RECURSIVE Erase(_, _)
Erase(frames, frame) ==
    IF frames = <<>> THEN <<>>
    ELSE IF Head(frames) = frame THEN Tail(frames)
    ELSE <<Head(frames)>> \o Erase(Tail(frames), frame)

\* The four maps are freed and cleared when the last requested frame is gone.
ClearMaps(L) ==
    IF L.screenshotFrames = <<>>
    THEN [L EXCEPT !.swapchainMap = <<>>, !.imageMap = <<>>, !.deviceMap = <<>>,
                   !.physDeviceMap = <<>>]
    ELSE L

\* Which swapchain of the call has its image dumped: the first.
DumpedSwapchain_last(swapchains) == Len(swapchains)
DumpedSwapchain(swapchains) == 1

\* vkQueuePresentKHR after the downstream call returned result: the variable
\* is queried on the first call; when the call succeeded and the frame number
\* is in the list, the image presented on the first swapchain is dumped, the
\* frame is erased, and the maps are cleared with the last one; the frame
\* number is incremented on every call.  An unregistered swapchain is a null
\* pointer read; a swapchain without image list or an index past it is a wild
\* read, which stops the process ("crash") or yields the handle wild.  fail
\* is the call of writePPM that fails, nd whether assertions are compiled out.
Requests(Q, result) ==
    result = "VK_SUCCESS" /\ Q.screenshotFrames # <<>>
                          /\ Q.frameNumber \in SeqRange(Q.screenshotFrames)
Dumped_kept(W, frame) ==
    IF W.fault # "ok" THEN [L |-> W.L, dumped |-> TRUE, fault |-> W.fault]
    ELSE [L |-> [W.L EXCEPT !.frameNumber = @ + 1], dumped |-> TRUE, fault |-> "ok"]
Dumped(W, frame) ==
    IF W.fault # "ok" THEN [L |-> W.L, dumped |-> TRUE, fault |-> W.fault]
    ELSE [L |-> [ClearMaps([W.L EXCEPT !.screenshotFrames = Erase(@, frame)])
                   EXCEPT !.frameNumber = @ + 1],
          dumped |-> TRUE, fault |-> "ok"]
PresentQueried(Q, result, swapchain, index, wild, fail, nd) ==
    IF ~Requests(Q, result)
    THEN [L |-> [Q EXCEPT !.frameNumber = @ + 1], dumped |-> FALSE, fault |-> "ok"]
    ELSE IF ~Has(Q.swapchainMap, swapchain)
    THEN [L |-> Q, dumped |-> FALSE, fault |-> "segv"]
    ELSE IF ~(index < Len(Q.swapchainMap[swapchain].imageList)) /\ wild = "crash"
    THEN [L |-> Q, dumped |-> FALSE, fault |-> "ub"]
    ELSE Dumped(writePPM(Q, Q.frameNumber,
                         IF index < Len(Q.swapchainMap[swapchain].imageList)
                         THEN Q.swapchainMap[swapchain].imageList[index + 1]
                         ELSE wild,
                         fail, nd),
                Q.frameNumber)
vkQueuePresentKHR(L, result, swapchains, imageIndices, wild, fail, nd) ==
    PresentQueried(QueryEnv(L), result, swapchains[DumpedSwapchain(swapchains)],
                   imageIndices[DumpedSwapchain(swapchains)], wild, fail, nd)

\* What the application asks of a swapchain: the format and the extent of its
\* images.
MaxHeight == 2
ImageFormats == {"VK_FORMAT_B8G8R8A8_UNORM", "VK_FORMAT_R8G8B8A8_UNORM", "VK_FORMAT_R5G6B5_UNORM"}
Extents == {[width |-> h, height |-> h] : h \in 1 .. MaxHeight}
SwapchainInfos == [format : ImageFormats, imageExtent : Extents]
FirstInfo == CHOOSE info \in SwapchainInfos :
                 info.format = "VK_FORMAT_B8G8R8A8_UNORM" /\ info.imageExtent.height = 1

\* The application's calls.  It enumerates the physical device before it
\* creates the device, creates the device before it uses it, gets the images
\* of swapchains it created, and presents, once it has a queue and a command
\* pool, images of swapchains whose images it got.
LayerCall(op, L) ==
    /\ fault' = "ok"
    /\ layer' = L
    /\ ret' = [op |-> op, before |-> layer]
    /\ UNCHANGED <<bo, relocs, net, ws, pend, ndebug, dev, cut, thr>>

Did(L, ok, what) == IF ok THEN [L EXCEPT !.setup = @ \cup {what}] ELSE L
OK(result) == result = "VK_SUCCESS"

EnumeratePhysicalDevicesWith(results, arrays) ==
    /\ Running
    /\ \E result \in results, devices \in arrays :
         LayerCall("vkEnumeratePhysicalDevices",
                   Did(vkEnumeratePhysicalDevices(layer, "instance", devices, result),
                       OK(result) /\ devices # <<>>, "enumerated"))

CreateDeviceWith(results) ==
    /\ Running
    /\ "enumerated" \in layer.setup
    /\ \E result \in results :
         LayerCall("vkCreateDevice",
                   Did(vkCreateDevice(layer, "gpu", "device", result), OK(result), "device"))

GetDeviceQueue ==
    /\ Running
    /\ "device" \in layer.setup
    /\ LayerCall("vkGetDeviceQueue", Did(vkGetDeviceQueue(layer, "device", "queue"), TRUE, "queue"))

CreateCommandPoolWith(results) ==
    /\ Running
    /\ "device" \in layer.setup
    /\ \E result \in results :
         LayerCall("vkCreateCommandPool",
                   Did(vkCreateCommandPool(layer, "device",
                                           IF OK(result) THEN "commandPool" ELSE "unset"),
                       OK(result), "pool"))

CreateSwapchainWith(results, chains, infos) ==
    /\ Running
    /\ "device" \in layer.setup
    /\ \E result \in results, swapchain \in chains \ layer.created, info \in infos :
         LayerCall("vkCreateSwapchainKHR",
                   LET L == vkCreateSwapchainKHR(layer, "device", swapchain, info, result)
                   IN  IF OK(result) THEN [L EXCEPT !.created = @ \cup {swapchain}] ELSE L)

GetSwapchainImagesWith(results, givens) ==
    /\ Running
    /\ \E result \in results, swapchain \in layer.created, given \in givens :
         LayerCall("vkGetSwapchainImagesKHR",
                   LET L == vkGetSwapchainImagesKHR(layer, swapchain, given,
                                                    IF given /\ OK(result)
                                                    THEN ImagesOf(swapchain, MaxImages) ELSE <<>>,
                                                    result)
                   IN  IF given /\ OK(result) THEN [L EXCEPT !.acquired = @ \cup {swapchain}] ELSE L)

PresentWith(results, counts, indices, wilds, fails) ==
    /\ Running
    /\ {"queue", "pool"} \subseteq layer.setup
    /\ layer.presents < MaxFrames
    /\ \E result \in results, n \in counts :
         \E swapchains \in [1 .. n -> layer.acquired], imageIndices \in [1 .. n -> indices],
            wild \in wilds, fail \in fails :
           LET r == vkQueuePresentKHR(layer, result, swapchains, imageIndices, wild, fail, ndebug)
           IN  /\ fault' = r.fault
               /\ layer' = [r.L EXCEPT !.presents = @ + 1]
               /\ ret' = [op |-> "vkQueuePresentKHR", before |-> layer, result |-> result,
                          swapchains |-> swapchains, imageIndices |-> imageIndices,
                          wild |-> wild, fail |-> fail, dumped |-> r.dumped]
    /\ UNCHANGED <<bo, relocs, net, ws, pend, ndebug, dev, cut, thr>>

EnumeratePhysicalDevices == EnumeratePhysicalDevicesWith(Results, {<<>>, <<"gpu">>})
CreateDevice == CreateDeviceWith(Results)
CreateCommandPool == CreateCommandPoolWith(Results)
CreateSwapchain == CreateSwapchainWith(Results, Swapchains, {FirstInfo})
GetSwapchainImages == GetSwapchainImagesWith(Results, BOOLEAN)
Present == PresentWith(Results, {1, 2}, ImageIndices, {"crash"}, {"none"})

\* The layer as loaded with _VK_SCREENSHOT set to env, in a build with
\* assertions or without (NDEBUG).
InitBuild(envs, builds) ==
    /\ bo = [b \in BOs |-> NoBo]
    /\ relocs = [b \in BOs |-> <<>>]
    /\ net = [b \in BOs |-> 0]
    /\ fault = "ok"
    /\ ws = LiveWinsys(DefaultInfo)
    /\ pend = NoCall
    /\ ndebug \in builds
    /\ dev = DefaultDev
    /\ cut = [b \in BOs |-> NoCut]
    /\ thr = [t \in Threads |-> Idle(0)]
    /\ \E env \in envs : layer = [NoLayer EXCEPT !.env = env]
    /\ ret = NoCall
InitWith(envs) == InitBuild(envs, {FALSE})

LayerEnvs == {<<>>, <<"0">>, <<"a">>, <<"2", ",", "0">>}
InitLayer == InitWith(LayerEnvs)

NextLayer ==
    \/ EnumeratePhysicalDevices
    \/ CreateDevice
    \/ GetDeviceQueue
    \/ CreateCommandPool
    \/ CreateSwapchain
    \/ GetSwapchainImages
    \/ Present

SpecLayer == InitLayer /\ [][NextLayer]_vars

\* The requested-frame list that the present call recorded in ret worked on:
\* the list as it was, or as the call itself parsed it when it was the first.
ListAtCall == IF ret.before.screenshotEnvQueried THEN ret.before.screenshotFrames
              ELSE layer.parsed[1]

\* C28: a vkQueuePresentKHR call that returns has the number of earlier
\* vkQueuePresentKHR calls, whatever their result, as its frame number N; it
\* dumps a screenshot iff the downstream present returned VK_SUCCESS and N is
\* in the requested-frame list; a dump removes N (and nothing else) from the
\* list and is of the image presented on the first swapchain of the call, a
\* call that does not dump leaves list and dumps alone; no frame is dumped
\* twice.
C28_DumpIffRequested ==
    /\ \A i, j \in 1 .. Len(layer.dumps) : layer.dumps[i].file = layer.dumps[j].file => i = j
    /\ (ret.op = "vkQueuePresentKHR" /\ fault = "ok") =>
         LET N == ret.before.presents
         IN  /\ ret.before.frameNumber = N
             /\ layer.frameNumber = N + 1
             /\ ret.dumped <=> (ret.result = "VK_SUCCESS" /\ N \in SeqRange(ListAtCall))
             /\ ret.dumped =>
                  /\ SeqRange(layer.screenshotFrames) = SeqRange(ListAtCall) \ {N}
                  /\ layer.dumps = Append(ret.before.dumps,
                                          [file |-> N,
                                           image |-> ImageOf(ret.swapchains[1], ret.imageIndices[1])])
             /\ ~ret.dumped =>
                  /\ layer.screenshotFrames = ListAtCall
                  /\ layer.dumps = ret.before.dumps

\* Frame 2 is dumped after frame 0, from a call that presents on two
\* different swapchains.
C28_Witness ==
    /\ ret.op = "vkQueuePresentKHR" /\ fault = "ok"
    /\ ret.dumped
    /\ Len(ret.swapchains) = 2 /\ ret.swapchains[1] # ret.swapchains[2]
    /\ Len(layer.dumps) = 2
    /\ layer.dumps[2].file = 2
    /\ layer.dumps[2].image = ImageOf(ret.swapchains[1], ret.imageIndices[1])

MapsEmpty(L) ==
    /\ DOMAIN L.swapchainMap = {}
    /\ DOMAIN L.imageMap = {}
    /\ DOMAIN L.deviceMap = {}
    /\ DOMAIN L.physDeviceMap = {}

RegisteringCalls == {"vkCreateDevice", "vkEnumeratePhysicalDevices", "vkGetDeviceQueue",
                     "vkCreateCommandPool", "vkCreateSwapchainKHR", "vkGetSwapchainImagesKHR"}

\* C29: whenever screenshots are done (_VK_SCREENSHOT has been queried and the
\* requested-frame list is empty) the four tracking maps are empty, and a
\* registering call made when screenshots are done adds no entry to any map.
C29_DoneMapsEmpty ==
    /\ ScreenshotsDone(layer) => MapsEmpty(layer)
    /\ (ret.op \in RegisteringCalls /\ ScreenshotsDone(ret.before)) =>
         /\ DOMAIN layer.swapchainMap \subseteq DOMAIN ret.before.swapchainMap
         /\ DOMAIN layer.imageMap \subseteq DOMAIN ret.before.imageMap
         /\ DOMAIN layer.deviceMap \subseteq DOMAIN ret.before.deviceMap
         /\ DOMAIN layer.physDeviceMap \subseteq DOMAIN ret.before.physDeviceMap

\* The four registering calls that test for it add nothing once screenshots
\* are done.
C29_GuardedCallsAddNothing ==
    (/\ ret.op \in RegisteringCalls \ {"vkCreateDevice", "vkEnumeratePhysicalDevices"}
     /\ ScreenshotsDone(ret.before)) =>
        /\ layer.swapchainMap = ret.before.swapchainMap
        /\ layer.imageMap = ret.before.imageMap
        /\ layer.deviceMap = ret.before.deviceMap
        /\ layer.physDeviceMap = ret.before.physDeviceMap

\* The last requested frame was dumped and the maps were cleared; a
\* vkCreateDevice made after that has registered the device again.
C29_DeviceAfterDone ==
    /\ ret.op = "vkCreateDevice"
    /\ ScreenshotsDone(ret.before)
    /\ ret.before.dumps # <<>>
    /\ MapsEmpty(ret.before)
    /\ DOMAIN layer.deviceMap = {"device"}

\* With _VK_SCREENSHOT unset the first vkQueuePresentKHR ends the screenshots
\* and leaves the maps as they are.
C29_DoneAtFirstPresent ==
    /\ ret.op = "vkQueuePresentKHR"
    /\ layer.env = <<>>
    /\ ScreenshotsDone(layer)
    /\ ~ScreenshotsDone(ret.before)
    /\ "device" \in DOMAIN layer.deviceMap

\* Values of _VK_SCREENSHOT: every string of at most MaxEnv of these characters.
EnvChars == {"0", "1", ",", "a", "-"}
Envs == UNION {[1 .. n -> EnvChars] : n \in 0 .. MaxEnv}
InitEnv == InitWith(Envs)

\* An application that sets up one device, one swapchain and presents its
\* first image.
EnumerateGpu == EnumeratePhysicalDevicesWith({"VK_SUCCESS"}, {<<"gpu">>})
CreateTheDevice == CreateDeviceWith({"VK_SUCCESS"})
CreateThePool == CreateCommandPoolWith({"VK_SUCCESS"})
CreateOneSwapchain == CreateSwapchainWith({"VK_SUCCESS"}, {"swapchainA"}, {FirstInfo})
GetItsImages == GetSwapchainImagesWith({"VK_SUCCESS"}, {TRUE})
PresentFirstImage == PresentWith(Results, {1}, {0}, {"crash"}, {"none"})

NextEnv ==
    \/ EnumerateGpu
    \/ CreateTheDevice
    \/ GetDeviceQueue
    \/ CreateThePool
    \/ CreateOneSwapchain
    \/ GetItsImages
    \/ PresentFirstImage

SpecEnv == InitEnv /\ [][NextEnv]_vars

\* What the variable asks for, read off its text: the words between the
\* commas, of those that start with a decimal digit the number their leading
\* digits spell, each number once, in order of first appearance.
RECURSIVE WordsOf(_, _)
WordsOf(text, word) ==
    IF text = <<>> THEN <<word>>
    ELSE IF Head(text) = "," THEN <<word>> \o WordsOf(Tail(text), <<>>)
    ELSE WordsOf(Tail(text), Append(word, Head(text)))
LeadingDigits(word) ==
    LET n == CHOOSE k \in 0 .. Len(word) :
                 /\ \A i \in 1 .. k : IsDigit(word[i])
                 /\ k < Len(word) => ~IsDigit(word[k + 1])
    IN  SubSeq(word, 1, n)
RECURSIVE Spelled(_)
Spelled(digits) ==
    IF digits = <<>> THEN 0
    ELSE 10 * Spelled(SubSeq(digits, 1, Len(digits) - 1)) + DigitValue(digits[Len(digits)])
RECURSIVE FirstAppearances(_, _)
FirstAppearances(words, seen) ==
    IF words = <<>> THEN <<>>
    ELSE LET w == Head(words)
             v == Spelled(LeadingDigits(w))
         IN  IF w = <<>> \/ ~IsDigit(w[1]) \/ v \in seen THEN FirstAppearances(Tail(words), seen)
             ELSE <<v>> \o FirstAppearances(Tail(words), seen \cup {v})
Requested(env) == FirstAppearances(WordsOf(env, <<>>), {})

\* C30: _VK_SCREENSHOT is read and parsed exactly once, during the first
\* vkQueuePresentKHR call; no call made after that adds an element to the
\* requested-frame list; and right after parsing the list holds, without
\* duplicates and in order of first appearance, the integer value of each
\* comma-separated word that starts with a decimal digit, and nothing else.
C30_ParsedOnce ==
    /\ layer.getenvCalls = (IF layer.presents > 0 THEN 1 ELSE 0)
    /\ layer.screenshotEnvQueried <=> layer.presents > 0
    /\ Len(layer.parsed) = layer.getenvCalls
    /\ ~layer.screenshotEnvQueried => layer.screenshotFrames = <<>>
    /\ layer.getenvCalls = 1 => layer.parsed[1] = Requested(layer.env)
    /\ (ret.op = "vkQueuePresentKHR" /\ ret.before.presents = 0) =>
         ret.before.getenvCalls = 0
    /\ (ret.op # "none" /\ ret.before.screenshotEnvQueried) =>
         SeqRange(layer.screenshotFrames) \subseteq SeqRange(ret.before.screenshotFrames)

\* The variable was "1,1" or "1,a" and so on: a second call has been made
\* after the one that parsed a list of one frame from three characters.
C30_Witness ==
    /\ ret.op = "vkQueuePresentKHR"
    /\ layer.presents = 2
    /\ layer.env = <<"1", ",", "1">>
    /\ layer.parsed = <<(<<1>>)>>
    /\ layer.getenvCalls = 1

\* ------------------------------------------------------------------------
\* writePPM followed call by call: an application with one swapchain of any
\* format whose presents may name an image index one past its images, any
\* one call of writePPM failing, with and without assertions.
DumpEnvs == {<<"0">>, <<"0", ",", "1">>}
InitDump == InitBuild(DumpEnvs, BOOLEAN)
WildHandles == {"crash", ImageOf("swapchainA", MaxImages)}
CreateAnySwapchain == CreateSwapchainWith({"VK_SUCCESS"}, {"swapchainA"}, SwapchainInfos)
PresentAndDump == PresentWith(Results, {1}, {0, MaxImages}, WildHandles, Asserted \cup {"none"})

NextDump ==
    \/ EnumerateGpu
    \/ CreateTheDevice
    \/ GetDeviceQueue
    \/ CreateThePool
    \/ CreateAnySwapchain
    \/ GetItsImages
    \/ PresentAndDump

SpecDump == InitDump /\ [][NextDump]_vars

\* The steps the claim orders, and the positions of a step among the calls
\* of the last writePPM.
OrderedSteps == <<"CreateImage", "AllocateMemory", "BindImageMemory", "CmdCopyImage",
                  "QueueSubmit", "QueueWaitIdle", "DeviceWaitIdle", "MapMemory", "read",
                  "UnmapMemory">>
PositionsOf(step) == {i \in 1 .. Len(layer.steps) : layer.steps[i] = step}

\* C31: among the calls writePPM makes, the linear image is created and its
\* memory allocated and bound, then the copy is recorded and submitted, then
\* the queue and then the device are waited for, then the memory is mapped,
\* then read (an unrecognised format has nothing read), then unmapped: a
\* later step of this list is made only after every earlier one was made, so
\* no read of the mapped memory comes before
\* the return of both idle waits that follow the submission of the copy.
C31_StepsInOrder ==
    \A i, j \in 1 .. Len(OrderedSteps) :
        (i < j /\ PositionsOf(OrderedSteps[j]) # {}) =>
            /\ OrderedSteps[i] # "read" => PositionsOf(OrderedSteps[i]) # {}
            /\ \A a \in PositionsOf(OrderedSteps[i]), b \in PositionsOf(OrderedSteps[j]) : a < b

\* A dump of an image of two rows has returned: two reads, then the unmap.
C31_Witness ==
    /\ ret.op = "vkQueuePresentKHR" /\ ret.dumped /\ fault = "ok"
    /\ Cardinality(PositionsOf("read")) = 2
    /\ PositionsOf("UnmapMemory") # {}

\* C32: a writePPM that returns has released everything it created, for
\* recognised and unrecognised formats alike: the memory is unmapped and
\* freed, the command buffer freed and its dispatch-table entry removed, the
\* linear image destroyed; the set of live objects made by the layer is the
\* same after the call as before it.
C32_NothingLeftLive ==
    (ret.op = "vkQueuePresentKHR" /\ ret.dumped /\ fault = "ok") =>
        layer.live = ret.before.live

\* What a returning writePPM does release: the mapping, the memory and the
\* command buffer.
C32_MemoryAndCommandBufferReleased ==
    (ret.op = "vkQueuePresentKHR" /\ ret.dumped /\ fault = "ok" /\ ret.fail = "none") =>
        \A o \in layer.live : o[1] \in {"image", "table entry"}

\* Two screenshots were taken, each of which has left its linear image and
\* the dispatch-table entry of its command buffer.
C32_TwoImagesLeft ==
    /\ ret.op = "vkQueuePresentKHR" /\ ret.dumped /\ fault = "ok"
    /\ Len(layer.dumps) = 2
    /\ layer.live = {<<"image", 0>>, <<"table entry", 0>>, <<"image", 1>>, <<"table entry", 1>>}

\* ------------------------------------------------------------------------
\* Creation, submission on either ring, destruction.
SubmitEitherRing == Submit({INTEL_RING_RENDER, INTEL_RING_BLT}, {0})

NextContext ==
    \/ Create
    \/ DestroyUnused
    \/ AllocPage
    \/ SubmitEitherRing
    \/ GpuComplete
    \/ BoUnref

SpecContext == InitInfo /\ [][NextContext]_vars

\* C33: a winsys that was created has a logical context and its info says
\* so, from the return of the creation for as long as it exists; every
\* submission on the render ring is made with drm_intel_gem_bo_context_exec
\* and the context, never with drm_intel_bo_mrb_exec.
C33_ContextBound ==
    /\ ws.state = "live" => (ws.ctx /\ ws.info.has_logical_context)
    /\ (ret.op = "create" /\ ret.val) => (ws.state = "live" /\ ws.ctx)
    /\ (ret.op = "submit" /\ ret.ring = INTEL_RING_RENDER) =>
          /\ Len(ret.kcalls) = 1
          /\ ret.kcalls[1].fn = "drm_intel_gem_bo_context_exec"
          /\ ret.kcalls[1].ctx

\* A render submission on a created winsys has returned 0: it went through
\* the context.
C33_Witness ==
    /\ ret.op = "submit" /\ ret.ring = INTEL_RING_RENDER /\ ret.val = 0
    /\ ws.state = "live" /\ ws.ctx
    /\ ret.kcalls[1].fn = "drm_intel_gem_bo_context_exec"

\* ------------------------------------------------------------------------
\* The intercepted entry points called from several threads.  A thread's call
\* goes through the downstream call ("called"), for the entry points that
\* lock through the acquisition of globalLock ("locked"), then through its
\* reads and writes of the shared state ("access"), and returns.

\* The layer after the application's single-threaded start: the physical
\* device enumerated, the device, its queue, a command pool and a swapchain
\* created, and the images of the swapchain obtained.
SetUp(env) ==
    LET a == Did(vkEnumeratePhysicalDevices([NoLayer EXCEPT !.env = env], "instance",
                                            <<"gpu">>, "VK_SUCCESS"), TRUE, "enumerated")
        b == Did(vkCreateDevice(a, "gpu", "device", "VK_SUCCESS"), TRUE, "device")
        c == Did(vkGetDeviceQueue(b, "device", "queue"), TRUE, "queue")
        d == Did(vkCreateCommandPool(c, "device", "commandPool"), TRUE, "pool")
        e == [vkCreateSwapchainKHR(d, "device", "swapchainA", FirstInfo, "VK_SUCCESS")
                EXCEPT !.created = {"swapchainA"}]
    IN  [vkGetSwapchainImagesKHR(e, "swapchainA", TRUE, ImagesOf("swapchainA", MaxImages),
                                 "VK_SUCCESS")
           EXCEPT !.acquired = {"swapchainA"}]

LockEnvs == {<<"0">>, <<"1">>}
InitLock ==
    /\ bo = [b \in BOs |-> NoBo]
    /\ relocs = [b \in BOs |-> <<>>]
    /\ net = [b \in BOs |-> 0]
    /\ fault = "ok"
    /\ ws = LiveWinsys(DefaultInfo)
    /\ pend = NoCall
    /\ ndebug = FALSE
    /\ dev = DefaultDev
    /\ cut = [b \in BOs |-> NoCut]
    /\ thr = [t \in Threads |-> Idle(0)]
    /\ \E env \in LockEnvs : layer = SetUp(env)
    /\ ret = NoCall

\* The entry points that take globalLock, and those that do not.
LockingCalls == {"vkGetDeviceQueue", "vkCreateCommandPool", "vkCreateSwapchainKHR",
                 "vkGetSwapchainImagesKHR", "vkQueuePresentKHR"}
LockFreeCalls == {"vkCreateDevice", "vkEnumeratePhysicalDevices"}

\* What a call does to the layer, given the result of its downstream call.
EffectOf(L, call) ==
    CASE call.op = "vkCreateDevice" ->
           [L |-> vkCreateDevice(L, "gpu", "device", call.result), fault |-> "ok"]
      [] call.op = "vkEnumeratePhysicalDevices" ->
           [L |-> vkEnumeratePhysicalDevices(L, "instance", <<"gpu">>, call.result), fault |-> "ok"]
      [] call.op = "vkGetDeviceQueue" ->
           [L |-> vkGetDeviceQueue(L, "device", "queue"), fault |-> "ok"]
      [] call.op = "vkCreateCommandPool" ->
           [L |-> vkCreateCommandPool(L, "device", IF OK(call.result) THEN "commandPool" ELSE "unset"),
            fault |-> "ok"]
      [] call.op = "vkCreateSwapchainKHR" ->
           [L |-> vkCreateSwapchainKHR(L, "device", "swapchainA", FirstInfo, call.result),
            fault |-> "ok"]
      [] call.op = "vkGetSwapchainImagesKHR" ->
           [L |-> vkGetSwapchainImagesKHR(L, "swapchainA", TRUE,
                                          IF OK(call.result) THEN ImagesOf("swapchainA", MaxImages)
                                          ELSE <<>>, call.result),
            fault |-> "ok"]
      [] call.op = "vkQueuePresentKHR" ->
           LET r == vkQueuePresentKHR(L, call.result, <<"swapchainA">>, <<0>>, "crash", "none", ndebug)
           IN  [L |-> [r.L EXCEPT !.presents = @ + 1], fault |-> r.fault]

\* The shared containers a call reads or writes.  vkQueuePresentKHR reads
\* and erases from the frame list, and when it dumps it reads the four maps
\* and, with the last frame, deletes their elements and clears them.
Touched(L, call) ==
    CASE call.op = "vkCreateDevice" ->
           IF OK(call.result) THEN {"deviceMap", "deviceExtMap"} ELSE {}
      [] call.op = "vkEnumeratePhysicalDevices" ->
           IF OK(call.result) THEN {"physDeviceMap"} ELSE {}
      [] call.op = "vkGetDeviceQueue" -> {"screenshotFrames", "deviceMap"}
      [] call.op = "vkCreateCommandPool" -> {"screenshotFrames", "deviceMap"}
      [] call.op = "vkCreateSwapchainKHR" -> {"screenshotFrames", "swapchainMap"}
      [] call.op = "vkGetSwapchainImagesKHR" -> {"screenshotFrames", "swapchainMap", "imageMap"}
      [] call.op = "vkQueuePresentKHR" ->
           IF Requests(QueryEnv(L), call.result)
           THEN {"screenshotFrames", "swapchainMap", "imageMap", "deviceMap", "physDeviceMap"}
           ELSE {"screenshotFrames"}

\* loader_platform_thread_lock_mutex and loader_platform_thread_unlock_mutex.
Lock(L, t) == [L EXCEPT !.globalLock = t]
Unlock(L, t) == [L EXCEPT !.globalLock = 0]

\* The unlock of the return taken when screenshots are done.
UnlockWhenDone_forgotten(L, t) == L
UnlockWhenDone(L, t) == Unlock(L, t)

\* A thread calls an entry point; the downstream call returns result.  The
\* registering calls may be repeated without end, so the calls a thread has
\* completed are not counted; the presents are, by the layer.
LayerThreadCalls(ops, results) ==
    /\ Running
    /\ \E t \in Threads, op \in ops, result \in Results :
         /\ thr[t].pc = "idle"
         /\ op = "vkQueuePresentKHR" => layer.presents < MaxFrames
         /\ op # "vkQueuePresentKHR" => result \in results
         /\ op = "vkGetDeviceQueue" => OK(result)
         /\ thr' = [thr EXCEPT ![t] = [pc |-> "called", done |-> thr[t].done,
                                       call |-> [op |-> op, result |-> result],
                                       touched |-> {}, locks |-> 0, unlocks |-> 0]]
    /\ UNCHANGED <<bo, relocs, net, fault, ws, pend, ndebug, dev, cut, layer, ret>>

\* The thread acquires globalLock, which no thread holds.
LayerThreadLock ==
    /\ Running
    /\ \E t \in Threads :
         /\ thr[t].pc = "called" /\ thr[t].call.op \in LockingCalls
         /\ layer.globalLock = 0
         /\ layer' = Lock(layer, t)
         /\ thr' = [thr EXCEPT ![t].pc = "locked", ![t].locks = @ + 1]
    /\ UNCHANGED <<bo, relocs, net, fault, ws, pend, ndebug, dev, cut, ret>>

\* The return of a call: what the thread called, how often it locked and
\* unlocked in the call, and whether it holds the lock as it returns.
Returned(t, L) ==
    [op |-> thr[t].call.op,
     locks |-> thr[t].locks,
     unlocks |-> thr[t].unlocks + (IF L.globalLock = layer.globalLock THEN 0 ELSE 1),
     held |-> L.globalLock = t]

\* With the lock, a registering call finds the screenshots done, unlocks and
\* returns.
LayerThreadDone ==
    /\ Running
    /\ \E t \in Threads :
         /\ thr[t].pc = "locked" /\ thr[t].call.op # "vkQueuePresentKHR"
         /\ ScreenshotsDone(layer)
         /\ layer' = UnlockWhenDone(layer, t)
         /\ ret' = Returned(t, UnlockWhenDone(layer, t))
         /\ thr' = [thr EXCEPT ![t] = Idle(0)]
    /\ UNCHANGED <<bo, relocs, net, fault, ws, pend, ndebug, dev, cut>>

\* The thread starts on the shared state: with the lock when its entry point
\* locks, right after the downstream call when it does not.  Doing so while
\* another thread is at work on the same container is a data race.
LayerThreadAccess ==
    /\ Running
    /\ \E t \in Threads :
         /\ \/ thr[t].pc = "locked" /\ (thr[t].call.op = "vkQueuePresentKHR" \/ ~ScreenshotsDone(layer))
            \/ thr[t].pc = "called" /\ thr[t].call.op \in LockFreeCalls
         /\ LET touched == Touched(layer, thr[t].call)
            IN  /\ thr' = [thr EXCEPT ![t].pc = "access", ![t].touched = touched]
                /\ fault' = IF \E u \in Threads \ {t} :
                                  thr[u].pc = "access" /\ thr[u].touched \cap touched # {}
                            THEN "race" ELSE "ok"
    /\ UNCHANGED <<bo, relocs, net, ws, pend, ndebug, dev, cut, layer, ret>>

\* The thread has done its work on the shared state, unlocks if its entry point
\* locks, and returns.
Unlocked(t, e) ==
    IF thr[t].call.op \in LockingCalls /\ e.fault = "ok" THEN Unlock(e.L, t) ELSE e.L
ReturnWith(t, e) ==
    /\ layer' = Unlocked(t, e)
    /\ fault' = e.fault
    /\ ret' = Returned(t, Unlocked(t, e))

LayerThreadReturn ==
    /\ Running
    /\ \E t \in Threads :
         /\ thr[t].pc = "access"
         /\ ReturnWith(t, EffectOf(layer, thr[t].call))
         /\ thr' = [thr EXCEPT ![t] = Idle(0)]
    /\ UNCHANGED <<bo, relocs, net, ws, pend, ndebug, dev, cut>>

LayerThreadCall == LayerThreadCalls(LockingCalls \cup LockFreeCalls, Results)
LockingThreadCall == LayerThreadCalls(LockingCalls, {"VK_SUCCESS"})

NextLock ==
    \/ LayerThreadCall
    \/ LayerThreadLock
    \/ LayerThreadDone
    \/ LayerThreadAccess
    \/ LayerThreadReturn

SpecLock == InitLock /\ [][NextLock]_vars

\* The same with calls of the locking entry points only.
NextLocking ==
    \/ LockingThreadCall
    \/ LayerThreadLock
    \/ LayerThreadDone
    \/ LayerThreadAccess
    \/ LayerThreadReturn

SpecLocking == InitLock /\ [][NextLocking]_vars

\* C34: a thread is at work on the layer's shared state (the four maps,
\* deviceExtMap, the frame list) only while it holds globalLock, and no two
\* threads are ever at work on the same container at once.
C34_AccessUnderLock ==
    /\ fault # "race"
    /\ \A t \in Threads :
         (thr[t].pc = "access" /\ thr[t].touched # {}) => layer.globalLock = t

\* The entry points that lock are at work on the shared state only with the
\* lock held.
C34_LockingCallsUnderLock ==
    \A t \in Threads :
        (thr[t].pc = "access" /\ thr[t].call.op \in LockingCalls) => layer.globalLock = t

\* A vkCreateDevice has started to write deviceMap while a vkQueuePresentKHR
\* that dumps the last requested frame, and so clears the maps, is at work
\* with the lock.
C34_RaceOnDeviceMap ==
    /\ fault = "race"
    /\ \E t, u \in Threads :
         /\ thr[t].pc = "access" /\ thr[t].call.op = "vkCreateDevice"
         /\ thr[u].pc = "access" /\ thr[u].call.op = "vkQueuePresentKHR"
         /\ layer.globalLock = u
         /\ "deviceMap" \in thr[u].touched

\* C37: a call of vkGetDeviceQueue, vkCreateCommandPool, vkCreateSwapchainKHR,
\* vkGetSwapchainImagesKHR or vkQueuePresentKHR that returns has acquired
\* globalLock once and released it once, on the return taken when screenshots
\* are done as on the others, and does not hold it as it returns; no call
\* acquires the lock a second time, and a thread in no call does not hold it.
C37_LockedOnceUnlockedOnce ==
    /\ ret.op \in LockingCalls =>
          (ret.locks = 1 /\ ret.unlocks = 1 /\ ~ret.held)
    /\ \A t \in Threads :
          /\ thr[t].pc # "idle" => thr[t].locks <= 1
          /\ (thr[t].pc = "idle" /\ fault = "ok") => layer.globalLock # t

\* A registering call has returned by the path for screenshots that are done,
\* having locked and unlocked once, while another thread waits in a call.
C37_Witness ==
    /\ ret.op = "vkCreateSwapchainKHR"
    /\ ScreenshotsDone(layer)
    /\ ret.locks = 1 /\ ret.unlocks = 1 /\ ~ret.held
    /\ layer.globalLock = 0
    /\ \E t \in Threads : thr[t].pc = "called"

\* An application that is set up and goes on presenting: it never stops
\* calling vkQueuePresentKHR while a call is possible.
PresentEnvs == {<<>>, <<"0">>, <<"1">>, <<"a">>, <<"2", ",", "0">>}
InitPresenting ==
    /\ bo = [b \in BOs |-> NoBo]
    /\ relocs = [b \in BOs |-> <<>>]
    /\ net = [b \in BOs |-> 0]
    /\ fault = "ok"
    /\ ws = LiveWinsys(DefaultInfo)
    /\ pend = NoCall
    /\ ndebug = FALSE
    /\ dev = DefaultDev
    /\ cut = [b \in BOs |-> NoCut]
    /\ thr = [t \in Threads |-> Idle(0)]
    /\ \E env \in PresentEnvs : layer = SetUp(env)
    /\ ret = NoCall

\* A call of vkQueuePresentKHR is possible, and a step is such a call.
PresentEnabled ==
    /\ Running
    /\ {"queue", "pool"} \subseteq layer.setup
    /\ layer.presents < MaxFrames
    /\ layer.acquired # {}
PresentStep == layer'.presents = layer.presents + 1

\* Weak fairness of the present, WF_vars(PresentFirstImage), written out with
\* the condition under which the present is enabled: the application does not
\* stay able to present for ever without presenting.
FairPresent == []<>(~PresentEnabled) \/ []<><<PresentStep>>_vars

\* The swapchain exists; the application may register again and presents.
NextPresenting ==
    \/ EnumerateGpu
    \/ CreateTheDevice
    \/ GetDeviceQueue
    \/ CreateThePool
    \/ GetItsImages
    \/ PresentFirstImage

SpecPresenting == InitPresenting /\ [][NextPresenting]_vars /\ FairPresent

\* The present that has returned was the present of a requested frame.
DuePresent ==
    /\ ret.op = "vkQueuePresentKHR"
    /\ fault = "ok"
    /\ QueryEnv(ret.before).frameNumber \in SeqRange(QueryEnv(ret.before).screenshotFrames)

C35_DuePresentFailed == DuePresent /\ ret.result # "VK_SUCCESS"

\* Every requested frame is gone from the list, and if any was requested the
\* maps were freed with the last.
C35_AllRemoved ==
    /\ layer.screenshotEnvQueried
    /\ layer.screenshotFrames = <<>>
    /\ layer.parsed[1] # <<>> => MapsEmpty(layer)

ImageHanded(Q) ==
    LET list == Q.swapchainMap[ret.swapchains[1]].imageList
    IN  IF ret.imageIndices[1] < Len(list) THEN list[ret.imageIndices[1] + 1] ELSE ret.wild
HandedUnregistered(Q) ==
    /\ Requests(Q, ret.result)
    /\ Has(Q.swapchainMap, ret.swapchains[1])
    /\ ImageHanded(Q) # "crash"
    /\ ~Has(Q.imageMap, ImageHanded(Q))
Untouched(Q) ==
    /\ fault = "ok"
    /\ ~Has(layer.imageMap, ImageHanded(Q))
    /\ DOMAIN layer.deviceMap \subseteq DOMAIN Q.deviceMap
    /\ layer.live = Q.live
    /\ layer.dumps = Q.dumps
NullInserted(Q) ==
    /\ fault = "segv"
    /\ Has(layer.imageMap, ImageHanded(Q))
    /\ layer.imageMap[ImageHanded(Q)] = "NULL"
    /\ layer.dumps = Q.dumps

\* C36: writePPM called with an image that is not registered in imageMap
\* returns: no map entry is dereferenced (no fault), no entry is inserted
\* into imageMap or deviceMap, and no Vulkan object or file is created.
C36_UnregisteredImageIgnored ==
    (ret.op = "vkQueuePresentKHR" /\ HandedUnregistered(QueryEnv(ret.before)))
        => Untouched(QueryEnv(ret.before))

\* writePPM was handed an unregistered image: imageMap now holds a null
\* entry for it, and the read through that entry ended the process.
C36_NullEntryInserted ==
    /\ ret.op = "vkQueuePresentKHR"
    /\ HandedUnregistered(QueryEnv(ret.before))
    /\ NullInserted(QueryEnv(ret.before))

\* --------------------------------------------------- format classification
\* (src/icd/common/icd-format.c)

\* icd_format_is_ds: the formats named by the cases of its switch.
icd_format_is_ds(format) ==
    format \in
    {"VK_FMT_D16_UNORM", "VK_FMT_D24_UNORM", "VK_FMT_D32_SFLOAT", "VK_FMT_S8_UINT",
     "VK_FMT_D16_UNORM_S8_UINT", "VK_FMT_D24_UNORM_S8_UINT", "VK_FMT_D32_SFLOAT_S8_UINT"}

\* icd_format_is_compressed: the formats named by the cases of its switch.
icd_format_is_compressed(format) ==
    format \in
    {"VK_FMT_BC1_RGB_UNORM", "VK_FMT_BC1_RGB_SRGB", "VK_FMT_BC2_UNORM", "VK_FMT_BC2_SRGB",
     "VK_FMT_BC3_UNORM", "VK_FMT_BC3_SRGB", "VK_FMT_BC4_UNORM", "VK_FMT_BC4_SNORM",
     "VK_FMT_BC5_UNORM", "VK_FMT_BC5_SNORM", "VK_FMT_BC6H_UFLOAT", "VK_FMT_BC6H_SFLOAT",
     "VK_FMT_BC7_UNORM", "VK_FMT_BC7_SRGB", "VK_FMT_ETC2_R8G8B8_UNORM",
     "VK_FMT_ETC2_R8G8B8A1_UNORM", "VK_FMT_ETC2_R8G8B8A8_UNORM", "VK_FMT_EAC_R11_UNORM",
     "VK_FMT_EAC_R11_SNORM", "VK_FMT_EAC_R11G11_UNORM", "VK_FMT_EAC_R11G11_SNORM",
     "VK_FMT_ASTC_4x4_UNORM", "VK_FMT_ASTC_4x4_SRGB", "VK_FMT_ASTC_5x4_UNORM",
     "VK_FMT_ASTC_5x4_SRGB", "VK_FMT_ASTC_5x5_UNORM", "VK_FMT_ASTC_5x5_SRGB",
     "VK_FMT_ASTC_6x5_UNORM", "VK_FMT_ASTC_6x5_SRGB", "VK_FMT_ASTC_6x6_UNORM",
     "VK_FMT_ASTC_6x6_SRGB", "VK_FMT_ASTC_8x5_UNORM", "VK_FMT_ASTC_8x5_SRGB",
     "VK_FMT_ASTC_8x6_UNORM", "VK_FMT_ASTC_8x6_SRGB", "VK_FMT_ASTC_8x8_UNORM",
     "VK_FMT_ASTC_8x8_SRGB", "VK_FMT_ASTC_10x5_UNORM", "VK_FMT_ASTC_10x5_SRGB",
     "VK_FMT_ASTC_10x6_UNORM", "VK_FMT_ASTC_10x6_SRGB", "VK_FMT_ASTC_10x8_UNORM",
     "VK_FMT_ASTC_10x8_SRGB", "VK_FMT_ASTC_10x10_UNORM", "VK_FMT_ASTC_10x10_SRGB",
     "VK_FMT_ASTC_12x10_UNORM", "VK_FMT_ASTC_12x10_SRGB", "VK_FMT_ASTC_12x12_UNORM",
     "VK_FMT_ASTC_12x12_SRGB"}

icd_format_get_channel_count(format) == icd_format_table[format].channel_count

\* What a call of icd_format_get_class comes to: a class returned, or an
\* assert that fails; in a build without assertions (NDEBUG) control runs
\* on past the assert, and where it reaches the end of the function the
\* value returned is indeterminate.
Class(name) == [class |-> name, fault |-> "ok"]
AssertFails(nd) ==
    IF nd THEN [class |-> "indeterminate", fault |-> "ub"]
    ELSE [class |-> "none", fault |-> "abort"]

\* The depth/stencil switch.  Without assertions the inner default of case 3
\* falls through case 4 into case 5.
DepthStencilClass(size, channels, nd) ==
    CASE size = 1 -> Class("VK_IMAGE_FORMAT_CLASS_S8")
      [] size = 2 -> Class("VK_IMAGE_FORMAT_CLASS_D16")
      [] size = 3 /\ channels = 1 -> Class("VK_IMAGE_FORMAT_CLASS_D24")
      [] size = 3 /\ channels = 2 -> Class("VK_IMAGE_FORMAT_CLASS_D16S8")
      [] size = 4 /\ channels = 1 -> Class("VK_IMAGE_FORMAT_CLASS_D32")
      [] size = 4 /\ channels = 2 -> Class("VK_IMAGE_FORMAT_CLASS_D24S8")
      [] size \in {3, 4} -> IF nd THEN Class("VK_IMAGE_FORMAT_CLASS_D32S8") ELSE AssertFails(nd)
      [] size = 5 -> Class("VK_IMAGE_FORMAT_CLASS_D32S8")
      [] OTHER -> AssertFails(nd)

\* The switch of the compressed formats and that of the colour formats.
BlockClass(size, nd) ==
    CASE size = 8 -> Class("VK_IMAGE_FORMAT_CLASS_64_BIT_BLOCK")
      [] size = 16 -> Class("VK_IMAGE_FORMAT_CLASS_128_BIT_BLOCK")
      [] OTHER -> AssertFails(nd)
ColorClass(size, nd) ==
    CASE size = 1 -> Class("VK_IMAGE_FORMAT_CLASS_8_BITS")
      [] size = 2 -> Class("VK_IMAGE_FORMAT_CLASS_16_BITS")
      [] size = 3 -> Class("VK_IMAGE_FORMAT_CLASS_24_BITS")
      [] size = 4 -> Class("VK_IMAGE_FORMAT_CLASS_32_BITS")
      [] size = 6 -> Class("VK_IMAGE_FORMAT_CLASS_48_BITS")
      [] size = 8 -> Class("VK_IMAGE_FORMAT_CLASS_64_BITS")
      [] size = 12 -> Class("VK_IMAGE_FORMAT_CLASS_96_BITS")
      [] size = 16 -> Class("VK_IMAGE_FORMAT_CLASS_128_BITS")
      [] OTHER -> AssertFails(nd)

\* icd_format_get_class(format): the undefined format fails the first
\* assert; then the branch of the format's kind switches on the table size.
icd_format_get_class(format, nd) ==
    IF format = "VK_FMT_UNDEFINED" /\ ~nd THEN AssertFails(nd)
    ELSE IF icd_format_is_compressed(format)
    THEN BlockClass(icd_format_get_size(format), nd)
    ELSE IF icd_format_is_ds(format)
    THEN DepthStencilClass(icd_format_get_size(format), icd_format_get_channel_count(format), nd)
    ELSE ColorClass(icd_format_get_size(format), nd)

BlockClasses == {"VK_IMAGE_FORMAT_CLASS_64_BIT_BLOCK", "VK_IMAGE_FORMAT_CLASS_128_BIT_BLOCK"}
FormatClasses ==
    BlockClasses \cup
    {"VK_IMAGE_FORMAT_CLASS_S8", "VK_IMAGE_FORMAT_CLASS_D16", "VK_IMAGE_FORMAT_CLASS_D24",
     "VK_IMAGE_FORMAT_CLASS_D16S8", "VK_IMAGE_FORMAT_CLASS_D32", "VK_IMAGE_FORMAT_CLASS_D24S8",
     "VK_IMAGE_FORMAT_CLASS_D32S8", "VK_IMAGE_FORMAT_CLASS_8_BITS", "VK_IMAGE_FORMAT_CLASS_16_BITS",
     "VK_IMAGE_FORMAT_CLASS_24_BITS", "VK_IMAGE_FORMAT_CLASS_32_BITS",
     "VK_IMAGE_FORMAT_CLASS_48_BITS", "VK_IMAGE_FORMAT_CLASS_64_BITS",
     "VK_IMAGE_FORMAT_CLASS_96_BITS", "VK_IMAGE_FORMAT_CLASS_128_BITS"}

\* A call of icd_format_get_class(format), in a build with assertions or
\* without.  A failed assert ends the process; an indeterminate return value
\* is any class.
GotClass(format, r, any) ==
    /\ fault' = r.fault
    /\ ret' = [op |-> "get_class", format |-> format,
               compressed |-> icd_format_is_compressed(format),
               ds |-> icd_format_is_ds(format),
               class |-> IF r.fault = "ub" THEN any ELSE r.class,
               returned |-> r.fault # "abort"]
GetClass ==
    /\ Running
    /\ \E format \in Formats, any \in FormatClasses :
         GotClass(format, icd_format_get_class(format, ndebug), any)
    /\ UNCHANGED <<bo, relocs, net, ws, pend, ndebug, dev, cut, thr, layer>>

InitClass == InitBuild({<<>>}, BOOLEAN)
NextClass == GetClass
SpecClass == InitClass /\ [][NextClass]_vars

\* The class that names the layout of each depth/stencil format.
OwnClass ==
    ("VK_FMT_S8_UINT" :> "VK_IMAGE_FORMAT_CLASS_S8") @@
    ("VK_FMT_D16_UNORM" :> "VK_IMAGE_FORMAT_CLASS_D16") @@
    ("VK_FMT_D24_UNORM" :> "VK_IMAGE_FORMAT_CLASS_D24") @@
    ("VK_FMT_D32_SFLOAT" :> "VK_IMAGE_FORMAT_CLASS_D32") @@
    ("VK_FMT_D16_UNORM_S8_UINT" :> "VK_IMAGE_FORMAT_CLASS_D16S8") @@
    ("VK_FMT_D24_UNORM_S8_UINT" :> "VK_IMAGE_FORMAT_CLASS_D24S8") @@
    ("VK_FMT_D32_SFLOAT_S8_UINT" :> "VK_IMAGE_FORMAT_CLASS_D32S8")

\* C38: icd_format_get_class returns for every depth/stencil format the
\* class that names its own layout: S8_UINT -> S8, D16_UNORM -> D16,
\* D24_UNORM -> D24, D32_SFLOAT -> D32, D16_UNORM_S8_UINT -> D16S8,
\* D24_UNORM_S8_UINT -> D24S8, D32_SFLOAT_S8_UINT -> D32S8.
C38_OwnClassReturned ==
    (ret.op = "get_class" /\ ret.format \in DOMAIN OwnClass) =>
        (ret.returned /\ ret.class = OwnClass[ret.format])

\* The call for D32_SFLOAT_S8_UINT, whose table size is 4 with two channels,
\* returned the class D24S8.
C38_D32S8ClassedD24S8 ==
    /\ ret.op = "get_class" /\ ret.format = "VK_FMT_D32_SFLOAT_S8_UINT"
    /\ ret.ds /\ ret.returned /\ fault = "ok"
    /\ icd_format_get_size(ret.format) = 4
    /\ ret.class = "VK_IMAGE_FORMAT_CLASS_D24S8"

\* The block-compressed formats: every BC1..BC7, ETC2, EAC and ASTC format.
BlockCompressed ==
    {"VK_FMT_BC1_RGB_UNORM", "VK_FMT_BC1_RGB_SRGB", "VK_FMT_BC1_RGBA_UNORM",
     "VK_FMT_BC1_RGBA_SRGB", "VK_FMT_BC2_UNORM", "VK_FMT_BC2_SRGB", "VK_FMT_BC3_UNORM",
     "VK_FMT_BC3_SRGB", "VK_FMT_BC4_UNORM", "VK_FMT_BC4_SNORM", "VK_FMT_BC5_UNORM",
     "VK_FMT_BC5_SNORM", "VK_FMT_BC6H_UFLOAT", "VK_FMT_BC6H_SFLOAT", "VK_FMT_BC7_UNORM",
     "VK_FMT_BC7_SRGB", "VK_FMT_ETC2_R8G8B8_UNORM", "VK_FMT_ETC2_R8G8B8A1_UNORM",
     "VK_FMT_ETC2_R8G8B8A8_UNORM", "VK_FMT_EAC_R11_UNORM", "VK_FMT_EAC_R11_SNORM",
     "VK_FMT_EAC_R11G11_UNORM", "VK_FMT_EAC_R11G11_SNORM", "VK_FMT_ASTC_4x4_UNORM",
     "VK_FMT_ASTC_4x4_SRGB", "VK_FMT_ASTC_5x4_UNORM", "VK_FMT_ASTC_5x4_SRGB",
     "VK_FMT_ASTC_5x5_UNORM", "VK_FMT_ASTC_5x5_SRGB", "VK_FMT_ASTC_6x5_UNORM",
     "VK_FMT_ASTC_6x5_SRGB", "VK_FMT_ASTC_6x6_UNORM", "VK_FMT_ASTC_6x6_SRGB",
     "VK_FMT_ASTC_8x5_UNORM", "VK_FMT_ASTC_8x5_SRGB", "VK_FMT_ASTC_8x6_UNORM",
     "VK_FMT_ASTC_8x6_SRGB", "VK_FMT_ASTC_8x8_UNORM", "VK_FMT_ASTC_8x8_SRGB",
     "VK_FMT_ASTC_10x5_UNORM", "VK_FMT_ASTC_10x5_SRGB", "VK_FMT_ASTC_10x6_UNORM",
     "VK_FMT_ASTC_10x6_SRGB", "VK_FMT_ASTC_10x8_UNORM", "VK_FMT_ASTC_10x8_SRGB",
     "VK_FMT_ASTC_10x10_UNORM", "VK_FMT_ASTC_10x10_SRGB", "VK_FMT_ASTC_12x10_UNORM",
     "VK_FMT_ASTC_12x10_SRGB", "VK_FMT_ASTC_12x12_UNORM", "VK_FMT_ASTC_12x12_SRGB"}

\* C39: icd_format_is_compressed is true for exactly the block-compressed
\* formats (BC1_RGBA_UNORM and BC1_RGBA_SRGB among them) and false for every
\* other format, and icd_format_get_class returns a block class,
\* 64_BIT_BLOCK or 128_BIT_BLOCK, for each of them.
C39_CompressedExactlyBlock ==
    ret.op = "get_class" =>
        /\ ret.compressed <=> ret.format \in BlockCompressed
        /\ ret.format \in BlockCompressed => (ret.returned /\ ret.class \in BlockClasses)

\* The call for BC1_RGBA_UNORM, which icd_format_is_compressed does not
\* name, returned the plain class 64_BITS.
C39_BC1RGBAClassedPlain ==
    /\ ret.op = "get_class" /\ ret.format = "VK_FMT_BC1_RGBA_UNORM"
    /\ ~ret.compressed /\ ret.returned /\ fault = "ok"
    /\ ret.class = "VK_IMAGE_FORMAT_CLASS_64_BITS"

\* C40: for every format other than UNDEFINED, icd_format_get_class returns
\* a format class and no assert fails: the table size of the format is one
\* that its branch of the classification handles.
C40_ClassWithoutAssert ==
    (ret.op = "get_class" /\ ret.format # "VK_FMT_UNDEFINED") =>
        (fault = "ok" /\ ret.returned /\ ret.class \in FormatClasses)

\* The call for ETC2_R8G8B8_UNORM, whose table size is 0, failed the assert
\* of the compressed branch in a build with assertions.
C40_ETC2AssertFailed ==
    /\ ret.op = "get_class" /\ ret.format = "VK_FMT_ETC2_R8G8B8_UNORM"
    /\ ret.compressed /\ icd_format_get_size(ret.format) = 0
    /\ ~ndebug /\ fault = "abort" /\ ~ret.returned

====
